---- MODULE Spec2Model ----
(***************************************************************************)
(* The register-machine evaluator of falcon (src/src/falcon/reval.cc):     *)
(* eval_python builds a RegisterFrame, eval runs the threaded dispatch     *)
(* loop over the register code, the frame is destroyed and the result is   *)
(* handed back.  Values are opaque refcounted host objects; the host       *)
(* Value API is modelled by the outcomes it can deliver (a new reference   *)
(* or NULL with an error set).                                             *)
(***************************************************************************)
EXTENDS Integers, Naturals, Sequences, FiniteSets, TLC

(***************************************************************************)
(* Bounds of the model.                                                    *)
(***************************************************************************)
\* Longest instruction stream drawn for a function.
MaxProgLen == 2
\* Host objects 1..NumObjs; 0 is the null sentinel.
NumObjs == 3
\* Refcounts are explored up to this value.
MaxRef == 4
\* Stand-in for the 1e9 op ceiling of collect_info.
OpCeiling == 3
\* Width in bits of the native long of the integer fast path.
WordBits == 4

NULL == 0
Obj == 1..NumObjs

\* Sentinel held by unused register fields of an instruction.
kBadRegister == -1

\* Registers allocated for the frame (code->num_registers).
num_registers == 3

(***************************************************************************)
(* Instruction encoding.  Sizes of the three packed shapes.                *)
(***************************************************************************)
SizeOfRegister == 2
SizeOfRegOp == 1 + 2 + 4 * SizeOfRegister
SizeOfBranchOp == 1 + 2 * SizeOfRegister + 4
SizeOfVarRegOp(n) == 1 + 2 + 1 + n * SizeOfRegister

RegOp(c, a, r1, r2, r3, r4) ==
  [kind |-> "RegOp", code |-> c, arg |-> a, reg_1 |-> r1, reg_2 |-> r2,
   reg_3 |-> r3, reg_4 |-> r4, label |-> 0, regs |-> << >>]

BranchOp(c, r1, r2, l) ==
  [kind |-> "BranchOp", code |-> c, arg |-> 0, reg_1 |-> r1, reg_2 |-> r2,
   reg_3 |-> kBadRegister, reg_4 |-> kBadRegister, label |-> l, regs |-> << >>]

VarRegOp(c, a, rs) ==
  [kind |-> "VarRegOp", code |-> c, arg |-> a, reg_1 |-> kBadRegister,
   reg_2 |-> kBadRegister, reg_3 |-> kBadRegister, reg_4 |-> kBadRegister,
   label |-> 0, regs |-> rs]

\* RMachineOp::size
SizeOf(op) ==
  CASE op.kind = "RegOp" -> SizeOfRegOp
    [] op.kind = "BranchOp" -> SizeOfBranchOp
    [] OTHER -> SizeOfVarRegOp(Len(op.regs))

RECURSIVE OffsetOf(_, _)
\* Byte offset of the i-th instruction (1-based) of stream s.
OffsetOf(s, i) == IF i <= 1 THEN 0 ELSE OffsetOf(s, i - 1) + SizeOf(s[i - 1])

(***************************************************************************)
(* The dispatch table of Evaluator::eval, indexed by the opcode byte.      *)
(***************************************************************************)
labels ==
  << "op_STOP_CODE", "op_POP_TOP", "op_ROT_TWO", "op_ROT_THREE",
     "op_DUP_TOP", "op_ROT_FOUR", "op_BADCODE", "op_BADCODE",
     "op_BADCODE", "op_NOP", "op_UNARY_POSITIVE", "op_UNARY_NEGATIVE",
     "op_UNARY_NOT", "op_UNARY_CONVERT", "op_BADCODE", "op_UNARY_INVERT",
     "op_BADCODE", "op_BADCODE", "op_BADCODE", "op_BINARY_POWER",
     "op_BINARY_MULTIPLY", "op_BINARY_DIVIDE", "op_BINARY_MODULO", "op_BINARY_ADD",
     "op_BINARY_SUBTRACT", "op_BINARY_SUBSCR", "op_BINARY_FLOOR_DIVIDE", "op_BINARY_TRUE_DIVIDE",
     "op_INPLACE_FLOOR_DIVIDE", "op_INPLACE_TRUE_DIVIDE", "op_SLICE", "op_SLICE",
     "op_SLICE", "op_SLICE", "op_BADCODE", "op_BADCODE",
     "op_BADCODE", "op_BADCODE", "op_BADCODE", "op_BADCODE",
     "op_STORE_SLICE", "op_STORE_SLICE", "op_STORE_SLICE", "op_STORE_SLICE",
     "op_BADCODE", "op_BADCODE", "op_BADCODE", "op_BADCODE",
     "op_BADCODE", "op_BADCODE", "op_DELETE_SLICE", "op_DELETE_SLICE",
     "op_DELETE_SLICE", "op_DELETE_SLICE", "op_STORE_MAP", "op_INPLACE_ADD",
     "op_INPLACE_SUBTRACT", "op_INPLACE_MULTIPLY", "op_INPLACE_DIVIDE", "op_INPLACE_MODULO",
     "op_STORE_SUBSCR", "op_DELETE_SUBSCR", "op_BINARY_LSHIFT", "op_BINARY_RSHIFT",
     "op_BINARY_AND", "op_BINARY_XOR", "op_BINARY_OR", "op_INPLACE_POWER",
     "op_GET_ITER", "op_BADCODE", "op_PRINT_EXPR", "op_PRINT_ITEM",
     "op_PRINT_NEWLINE", "op_PRINT_ITEM_TO", "op_PRINT_NEWLINE_TO", "op_INPLACE_LSHIFT",
     "op_INPLACE_RSHIFT", "op_INPLACE_AND", "op_INPLACE_XOR", "op_INPLACE_OR",
     "op_BREAK_LOOP", "op_WITH_CLEANUP", "op_LOAD_LOCALS", "op_RETURN_VALUE",
     "op_IMPORT_STAR", "op_EXEC_STMT", "op_YIELD_VALUE", "op_POP_BLOCK",
     "op_END_FINALLY", "op_BUILD_CLASS", "op_STORE_NAME", "op_DELETE_NAME",
     "op_UNPACK_SEQUENCE", "op_FOR_ITER", "op_LIST_APPEND", "op_STORE_ATTR",
     "op_DELETE_ATTR", "op_STORE_GLOBAL", "op_DELETE_GLOBAL", "op_DUP_TOPX",
     "op_LOAD_CONST", "op_LOAD_NAME", "op_BUILD_TUPLE", "op_BUILD_LIST",
     "op_BUILD_SET", "op_BUILD_MAP", "op_LOAD_ATTR", "op_COMPARE_OP",
     "op_IMPORT_NAME", "op_IMPORT_FROM", "op_JUMP_FORWARD", "op_JUMP_IF_FALSE_OR_POP",
     "op_JUMP_IF_TRUE_OR_POP", "op_JUMP_ABSOLUTE", "op_POP_JUMP_IF_FALSE", "op_POP_JUMP_IF_TRUE",
     "op_LOAD_GLOBAL", "op_BADCODE", "op_BADCODE", "op_CONTINUE_LOOP",
     "op_SETUP_LOOP", "op_SETUP_EXCEPT", "op_SETUP_FINALLY", "op_BADCODE",
     "op_LOAD_FAST", "op_STORE_FAST", "op_DELETE_FAST", "op_BADCODE",
     "op_BADCODE", "op_BADCODE", "op_RAISE_VARARGS", "op_CALL_FUNCTION",
     "op_MAKE_FUNCTION", "op_BUILD_SLICE", "op_MAKE_CLOSURE", "op_LOAD_CLOSURE",
     "op_LOAD_DEREF", "op_STORE_DEREF", "op_BADCODE", "op_BADCODE",
     "op_CALL_FUNCTION_VAR", "op_CALL_FUNCTION_KW", "op_CALL_FUNCTION_VAR_KW", "op_SETUP_WITH",
     "op_BADCODE", "op_EXTENDED_ARG", "op_SET_ADD", "op_MAP_ADD",
     "op_INCREF", "op_DECREF", "op_CONST_INDEX" >>

\* Labels whose handler is BAD_OP (or the shared op_BADCODE of unassigned bytes).
BadOpLabels ==
  { "op_SETUP_LOOP", "op_POP_BLOCK", "op_LOAD_CONST", "op_JUMP_FORWARD",
    "op_MAP_ADD", "op_SET_ADD", "op_EXTENDED_ARG", "op_SETUP_WITH",
    "op_STORE_DEREF", "op_LOAD_DEREF", "op_LOAD_CLOSURE", "op_MAKE_CLOSURE",
    "op_BUILD_SLICE", "op_MAKE_FUNCTION", "op_RAISE_VARARGS", "op_DELETE_FAST",
    "op_SETUP_FINALLY", "op_SETUP_EXCEPT", "op_CONTINUE_LOOP", "op_IMPORT_FROM",
    "op_IMPORT_NAME", "op_BUILD_MAP", "op_BUILD_SET", "op_DUP_TOPX",
    "op_DELETE_GLOBAL", "op_STORE_GLOBAL", "op_DELETE_ATTR",
    "op_UNPACK_SEQUENCE", "op_DELETE_NAME", "op_BUILD_CLASS", "op_END_FINALLY",
    "op_YIELD_VALUE", "op_EXEC_STMT", "op_IMPORT_STAR", "op_WITH_CLEANUP",
    "op_BREAK_LOOP", "op_PRINT_EXPR", "op_DELETE_SUBSCR", "op_STORE_MAP",
    "op_DELETE_SLICE", "op_STORE_SLICE", "op_NOP", "op_ROT_FOUR", "op_DUP_TOP",
    "op_ROT_THREE", "op_ROT_TWO", "op_POP_TOP", "op_STOP_CODE", "op_BADCODE" }

\* BINARY_OP3 instantiations: generic operator preceded by the integer fast path.
BinaryOpWithSpecializationLabels ==
  { "op_BINARY_MULTIPLY", "op_BINARY_DIVIDE", "op_BINARY_ADD",
    "op_BINARY_SUBTRACT", "op_BINARY_MODULO", "op_INPLACE_MULTIPLY",
    "op_INPLACE_DIVIDE", "op_INPLACE_ADD", "op_INPLACE_SUBTRACT",
    "op_INPLACE_MODULO" }

\* BINARY_OP2 instantiations: generic operator only.
BinaryOpLabels ==
  { "op_BINARY_OR", "op_BINARY_XOR", "op_BINARY_AND", "op_BINARY_RSHIFT",
    "op_BINARY_LSHIFT", "op_BINARY_TRUE_DIVIDE", "op_BINARY_FLOOR_DIVIDE",
    "op_INPLACE_OR", "op_INPLACE_XOR", "op_INPLACE_AND", "op_INPLACE_RSHIFT",
    "op_INPLACE_LSHIFT", "op_INPLACE_TRUE_DIVIDE", "op_INPLACE_FLOOR_DIVIDE" }

\* BinaryPower and InplacePower.
BinaryPowerLabels == { "op_BINARY_POWER", "op_INPLACE_POWER" }

\* UNARY_OP2 instantiations.
UnaryOpLabels ==
  { "op_UNARY_INVERT", "op_UNARY_CONVERT", "op_UNARY_NEGATIVE",
    "op_UNARY_POSITIVE" }

\* POP_JUMP_IF_FALSE falls through to the handler of JUMP_IF_FALSE_OR_POP,
\* POP_JUMP_IF_TRUE to that of JUMP_IF_TRUE_OR_POP.
JumpIfFalseLabels == { "op_POP_JUMP_IF_FALSE", "op_JUMP_IF_FALSE_OR_POP" }

JumpIfTrueLabels == { "op_POP_JUMP_IF_TRUE", "op_JUMP_IF_TRUE_OR_POP" }

\* The three labels that fall through to the handler of CALL_FUNCTION_VAR_KW.
CallLabels ==
  { "op_CALL_FUNCTION", "op_CALL_FUNCTION_VAR", "op_CALL_FUNCTION_KW",
    "op_CALL_FUNCTION_VAR_KW" }

\* na = op->arg & 0xff; nk = (op->arg >> 8) & 0xff
NumCallArgs(op) == op.arg % 256

NumCallKw(op) == (op.arg \div 256) % 256

HandlerLabels == { labels[i] : i \in 1..Len(labels) }

\* The opcode byte whose table entry is the given label.
Opcode(l) == CHOOSE b \in 0..(Len(labels) - 1) : labels[b + 1] = l

\* Opcode bytes past the last entry of the table.
FirstByteOutsideTable == Len(labels)

(***************************************************************************)
(* Register code handed to the evaluator.  Constants live in registers     *)
(* [0, K), the actual arguments follow; every register a drawn instruction *)
(* reads is one of those, so it is written before it is read.              *)
(***************************************************************************)
\* co_consts of the compiled function.
consts == << 1 >>

\* co_names of the compiled function.
names == << 3 >>

\* Instructions that fall through to their successor.
BodyOps ==
  { RegOp(Opcode("op_BINARY_ADD"), 0, 0, 1, 1, kBadRegister),
    RegOp(Opcode("op_BINARY_OR"), 0, 0, 1, 1, kBadRegister),
    RegOp(Opcode("op_BINARY_POWER"), 0, 1, 0, 1, kBadRegister),
    RegOp(Opcode("op_INPLACE_POWER"), 0, 1, 0, 1, kBadRegister),
    RegOp(Opcode("op_UNARY_NEGATIVE"), 0, 0, 1, kBadRegister, kBadRegister),
    RegOp(Opcode("op_COMPARE_OP"), 0, 0, 1, 1, kBadRegister),
    RegOp(Opcode("op_LOAD_ATTR"), 0, 0, 1, kBadRegister, kBadRegister),
    RegOp(Opcode("op_GET_ITER"), 0, 0, 1, kBadRegister, kBadRegister),
    RegOp(Opcode("op_SLICE"), 0, 0, kBadRegister, kBadRegister, 1),
    RegOp(Opcode("op_STORE_SUBSCR"), 0, 0, 1, 0, kBadRegister),
    RegOp(Opcode("op_STORE_ATTR"), 0, 1, 0, kBadRegister, kBadRegister),
    RegOp(Opcode("op_LIST_APPEND"), 0, 1, 0, kBadRegister, kBadRegister) }

\* Opcodes the engine rejects, and bytes that are no opcode at all.
RejectedOps ==
  { RegOp(b, 0, kBadRegister, kBadRegister, kBadRegister, kBadRegister) :
      b \in { Opcode("op_NOP"), Opcode("op_LOAD_CONST"), Opcode("op_SETUP_LOOP"),
              Opcode("op_BADCODE"), FirstByteOutsideTable } }

\* Instructions that end a stream; a branch label is held as an instruction
\* index until the stream is assembled.
FinalOps ==
  { RegOp(Opcode("op_RETURN_VALUE"), 0, r, kBadRegister, kBadRegister,
          kBadRegister) : r \in {0, 1} }
  \cup { BranchOp(Opcode("op_JUMP_ABSOLUTE"), kBadRegister, kBadRegister, j) :
           j \in 1..MaxProgLen }

Streams ==
  UNION { { b \o << f >> : b \in [1..n -> BodyOps \cup RejectedOps],
                           f \in FinalOps } : n \in 0..(MaxProgLen - 1) }

\* Branch labels become absolute byte offsets of instruction starts.
Assemble(s) ==
  [i \in 1..Len(s) |->
     IF s[i].kind = "BranchOp"
       THEN [s[i] EXCEPT !.label = OffsetOf(s, s[i].label)]
       ELSE s[i]]

Programs ==
  { Assemble(s) : s \in { t \in Streams :
      \A i \in 1..Len(t) : t[i].kind = "BranchOp" => t[i].label <= Len(t) } }

\* The callable: its formal parameter count, defaults, and self when bound.
Functions == { [co_argcount |-> 1, defaults |-> << >>, self |-> NULL] }

\* The args value handed to eval_python: a tuple of objects, or no tuple.
ArgInputs ==
  { [isTuple |-> FALSE, items |-> << >>],
    [isTuple |-> TRUE, items |-> << >>],
    [isTuple |-> TRUE, items |-> << 2 >>] }

VARIABLES
  code,         \* RegisterCode::instructions of the function being run
  fn,           \* the callable handed to eval_python
  args,         \* the args value handed to eval_python
  compiles,     \* whether compiler_->compile yields register code
  estate,       \* Entry, Dispatching, Returning, Failing, Returned, Escaped, Crashed
  registers,    \* RegisterFrame::registers
  refcnt,       \* ob_refcnt of every host object
  pc,           \* byte offset of the next instruction
  lbl,          \* handler label the last goto transferred control to
  err,          \* the pending host error ("none" when clear)
  exc,          \* C++ exception that left eval_python ("none" when none did)
  result,       \* value eval handed back
  dispatched,   \* gotos through the dispatch table so far (saturating)
  intOp,        \* arithmetic handler under study: add, sub, mul, div, mod
  intA,         \* value of the exact integer in reg_1
  intB,         \* value of the exact integer in reg_2
  intRes,       \* what the handler installed in reg_3, and by which path
  locals_,      \* RegisterFrame::locals(): binding of each name, NULL if none
  globals_,     \* RegisterFrame::globals()
  builtins_,    \* RegisterFrame::builtins()
  exact,        \* reg_1 holds an exact list and reg_2 an exact integer
  listItems,    \* items of the list held in reg_1 of BINARY_SUBSCR
  keyVal,       \* value of the integer held in reg_2 of BINARY_SUBSCR
  gil,          \* the host global lock as seen by the calling thread
  hostCall,     \* the last store the engine asked of the host Value API
  call_args,    \* RegisterFrame::call_args: NULL or the cached tuple
  tupleItems,   \* items of every argument tuple allocated by CALL_FUNCTION
  kept,         \* argument tuples a callee kept, with the items it received
  excInfo,      \* the counts formatted into the message of the exception
  files,        \* soft-space flag and characters written, per file object
  invoked,      \* the paths through which the last CALL_FUNCTION ran its callee
  handed,       \* the keyword pairs the last CALL_FUNCTION handed to its callee
  freed,        \* objects deallocated while the handler at work still used them
  containers,   \* tuples and lists built by the frame, with their items
  strings,      \* per object: whether it is a string, and its characters
  ob_type       \* per object: "int" or "float" when exactly that, else "object"

inputVars == << code, fn, args, compiles, locals_, globals_, builtins_, exact,
                listItems, keyVal, strings, ob_type >>
frameVars == << registers, refcnt, pc, lbl >>
intVars == << intOp, intA, intB, intRes >>
callVars == << call_args, tupleItems, kept >>
auxVars == << files, invoked, handed, freed, containers >>
hostVars == << gil, hostCall, call_args, tupleItems, kept, excInfo, files,
               invoked, handed, freed, containers >>
vars == << code, fn, args, compiles, estate, registers, refcnt, pc, lbl, err,
           exc, result, dispatched, intOp, intA, intB, intRes, locals_,
           globals_, builtins_, exact, listItems, keyVal, gil, hostCall,
           call_args, tupleItems, kept, excInfo, files, invoked, handed,
           freed, containers, strings, ob_type >>

RegIdx == 0..(num_registers - 1)

\* Occurrences of object o in tuple t.
Count(t, o) == Cardinality({ i \in DOMAIN t : t[i] = o })

\* References held outside the engine before the call: the code object's
\* constants tuple, the caller's argument tuple, the function's defaults.
InitRefcnt(f, a) ==
  [o \in Obj |-> Count(consts, o) + Count(a.items, o) + Count(f.defaults, o)
                 + (IF f.self = o THEN 1 ELSE 0) + Count(names, o)
                 + Count(locals_, o) + Count(globals_, o)
                 + Count(builtins_, o) + Count(listItems, o)]

(***************************************************************************)
(* Reference counting.  refcnt counts the references held by the caller    *)
(* and by the engine; a reference the host keeps for itself (a container   *)
(* storing an item) is the host's own and is not counted.                  *)
(***************************************************************************)
Py_INCREF(rc, o) == [rc EXCEPT ![o] = @ + 1]

Py_XDECREF(rc, o) ==
  IF o = NULL THEN rc ELSE [rc EXCEPT ![o] = IF @ > 0 THEN @ - 1 ELSE 0]

RECURSIVE DecrefAll(_, _)
\* Py_DECREF of every item of a tuple that is being deallocated.
DecrefAll(rc, items) ==
  IF items = << >> THEN rc
  ELSE DecrefAll(Py_XDECREF(rc, Head(items)), Tail(items))

\* Operands a host call cannot use: a null pointer or a freed object.
Unusable(rc, S) == \E o \in S : IF o = NULL THEN TRUE ELSE rc[o] = 0

\* What a value-returning host call can hand back: NULL with an error set,
\* or a new reference to an object.
HostResults(rc, S) ==
  IF NULL \in S THEN {NULL}
  ELSE {NULL} \cup { o \in Obj : rc[o] < MaxRef }

(***************************************************************************)
(* Fetch and dispatch.                                                     *)
(***************************************************************************)
ValidPc(p) == \E i \in 1..Len(code) : OffsetOf(code, i) = p

InstrAt(p) == code[CHOOSE i \in 1..Len(code) : OffsetOf(code, i) = p]

\* RegisterFrame::next_code: the opcode byte at pc.
next_code(p) == InstrAt(p).code

\* goto *labels[frame->next_code(pc)].  A byte past the end of the table
\* reads whatever follows it and jumps there: any handler, or no code at all.
GotoTargets(p) ==
  IF ValidPc(p) /\ next_code(p) < Len(labels)
    THEN { labels[next_code(p) + 1] }
    ELSE HandlerLabels \cup { "wild" }

\* The dispatch was a lookup inside the table.
InTable(p) == ValidPc(p) /\ next_code(p) < Len(labels)

Saturate(n) == IF n > OpCeiling THEN OpCeiling + 1 ELSE n

\* The tail of _DEFINE_OP: no op counting, then the indirect goto.
Goto(p) ==
  /\ pc' = p
  /\ lbl' \in GotoTargets(p)
  /\ dispatched' = Saturate(dispatched + 1)

\* Registers the handler at label l touches when it decodes instruction op.
UsedRegs(l, op) ==
  CASE l \in BinaryOpWithSpecializationLabels \cup BinaryOpLabels
         \cup BinaryPowerLabels \cup {"op_COMPARE_OP", "op_STORE_SUBSCR"} ->
         {op.reg_1, op.reg_2, op.reg_3}
    [] l \in UnaryOpLabels \cup {"op_LOAD_ATTR", "op_GET_ITER", "op_STORE_ATTR",
                                 "op_LIST_APPEND", "op_CONST_INDEX"} ->
         {op.reg_1, op.reg_2}
    [] l = "op_SLICE" ->
         {op.reg_1, op.reg_4} \cup ({op.reg_2, op.reg_3} \ {kBadRegister})
    [] l = "op_RETURN_VALUE" -> {op.reg_1}
    [] l = "op_FOR_ITER" -> {op.reg_1, op.reg_2}
    [] l \in JumpIfFalseLabels \cup JumpIfTrueLabels -> {op.reg_1}
    [] l \in {"op_BUILD_TUPLE", "op_BUILD_LIST"} ->
         IF Len(op.regs) = op.arg + 1
           THEN { op.regs[i] : i \in 1..Len(op.regs) }
           ELSE {kBadRegister}
    [] l \in {"op_LOAD_GLOBAL", "op_LOAD_NAME"} -> {op.reg_1}
    [] l \in {"op_LOAD_FAST", "op_STORE_FAST"} -> {op.reg_1, op.reg_2}
    [] l \in {"op_PRINT_ITEM", "op_PRINT_ITEM_TO"} ->
         {op.reg_1} \cup ({op.reg_2} \ {kBadRegister})
    [] l \in {"op_PRINT_NEWLINE", "op_PRINT_NEWLINE_TO"} ->
         {op.reg_2} \ {kBadRegister}
    [] l = "op_BINARY_SUBSCR" -> {op.reg_1, op.reg_2, op.reg_3}
    [] l \in CallLabels ->
         IF Len(op.regs) = NumCallArgs(op) + 2 * NumCallKw(op) + 2
           THEN { op.regs[i] : i \in 1..Len(op.regs) }
           ELSE {kBadRegister}
    [] OTHER -> {}

\* Control is at one of the labels L with a decodable instruction under pc.
Ready(L) ==
  /\ estate = "Dispatching"
  /\ lbl \in L
  /\ ValidPc(pc)
  /\ UsedRegs(lbl, InstrAt(pc)) \subseteq RegIdx

\* The process dies (null dereference, wild jump, use of freed memory).
Crash ==
  /\ estate' = "Crashed"
  /\ UNCHANGED << inputVars, frameVars, err, exc, result, dispatched, intVars, hostVars >>

\* register d takes res, an owned reference or NULL; its prior occupant is
\* released: Py_XDECREF(registers[d]); registers[d] = res.
Install(d, res) ==
  /\ registers' = [registers EXCEPT ![d] = res]
  /\ refcnt' = Py_XDECREF(IF res = NULL THEN refcnt ELSE Py_INCREF(refcnt, res),
                          registers[d])

\* A NULL result of a host call leaves the host error indicator set.
ErrAfter(res) == IF res = NULL THEN "HostError" ELSE err

(***************************************************************************)
(* Frame construction: RegisterFrame::RegisterFrame.                       *)
(***************************************************************************)
NeededArgs(f) == f.co_argcount - (IF f.self # NULL THEN 1 ELSE 0)

ArgOffset(f) == Len(consts) + (IF f.self # NULL THEN 1 ELSE 0)

\* The arity check that throws TypeError.
WrongArgCountIgnoringDefaults(f, a) == Len(a.items) < NeededArgs(f)

WrongArgCount(f, a) == Len(a.items) + Len(f.defaults) < NeededArgs(f)

\* "Wrong number of arguments for %s, expected %d, got %d."
WrongArgCountMessage(f, a) ==
  [expected |-> NeededArgs(f) - Len(f.defaults), got |-> Len(a.items)]

CtorRegisters(f, a) ==
  [i \in RegIdx |->
     IF i < Len(consts) THEN consts[i + 1]
     ELSE IF f.self # NULL /\ i = Len(consts) THEN f.self
     ELSE IF ~WrongArgCount(f, a) /\ i - ArgOffset(f) < NeededArgs(f)
       THEN IF i - ArgOffset(f) < Len(a.items)
              THEN a.items[i - ArgOffset(f) + 1]
              ELSE f.defaults[i - ArgOffset(f) - Len(a.items) + 1]
     ELSE NULL]

\* One Py_INCREF per register the constructor filled.
CtorRefcntNoRetain(rc, regs) == rc

CtorRefcnt(rc, regs) ==
  [o \in Obj |-> rc[o] + Cardinality({ i \in RegIdx : regs[i] = o })]

\* What compile failure leaves in the host error indicator.
CompileError == "SystemError"

(***************************************************************************)
(* GilHelper: PyGILState_Ensure on construction, PyGILState_Release of the *)
(* saved state on destruction.  held is whether the calling thread holds   *)
(* the lock; the two counters count the calls made so far.                 *)
(***************************************************************************)
PyGILState_Ensure(g) == [g EXCEPT !.held = TRUE, !.ensures = @ + 1]

PyGILState_ReleaseSkipped(g, state_) == g

PyGILState_Release(g, state_) ==
  [g EXCEPT !.held = state_, !.releases = @ + 1]

\* GilHelper h; ... end of the scope of frame_from_python, left by return
\* or by a throw that unwinds through it.
GilHelper(g) == PyGILState_Release(PyGILState_Ensure(g), g.held)

(***************************************************************************)
(* Evaluator::eval_python up to the first dispatch of Evaluator::eval.     *)
(***************************************************************************)
EvalPython ==
  /\ estate = "Entry"
  /\ IF ~args.isTuple
       THEN \* frame_from_python throws; eval_python has no handler for it
            /\ estate' = "Escaped"
            /\ exc' = "TypeError"
            /\ UNCHANGED << frameVars, err, result, dispatched, excInfo >>
       ELSE IF ~compiles
         THEN \* frame_from_python returns NULL, eval_python returns NULL
              /\ estate' = "Returned"
              /\ err' = CompileError
              /\ result' = NULL
              /\ UNCHANGED << frameVars, exc, dispatched, excInfo >>
       ELSE IF WrongArgCount(fn, args)
         THEN \* the constructor throws after retaining constants and self
              /\ estate' = "Escaped"
              /\ exc' = "TypeError"
              /\ excInfo' = WrongArgCountMessage(fn, args)
              /\ refcnt' = CtorRefcnt(refcnt, CtorRegisters(fn, args))
              /\ UNCHANGED << registers, pc, lbl, err, result, dispatched >>
       ELSE /\ estate' = "Dispatching"
            /\ registers' = CtorRegisters(fn, args)
            /\ refcnt' = CtorRefcnt(refcnt, CtorRegisters(fn, args))
            /\ Goto(0)
            /\ UNCHANGED << err, exc, result, excInfo >>
  /\ gil' = GilHelper(gil)
  /\ UNCHANGED << inputVars, intVars, hostCall, callVars, auxVars >>

(***************************************************************************)
(* Op handlers.  Each action is one handler followed by the goto that      *)
(* ends it.                                                                *)
(***************************************************************************)
BinaryOpWithSpecialization ==
  /\ Ready(BinaryOpWithSpecializationLabels)
  /\ LET op == InstrAt(pc)
         r1 == registers[op.reg_1]
         r2 == registers[op.reg_2]
     IN \/ /\ Unusable(refcnt, {r1, r2})
           /\ Crash
        \/ /\ NULL \notin {r1, r2}
           /\ \E r3 \in HostResults(refcnt, {r1, r2}) :
                /\ Install(op.reg_3, r3)
                /\ err' = ErrAfter(r3)
                /\ Goto(pc + SizeOfRegOp)
           /\ UNCHANGED << inputVars, estate, exc, result, intVars, hostVars >>

BinaryOp ==
  /\ Ready(BinaryOpLabels)
  /\ LET op == InstrAt(pc)
         r1 == registers[op.reg_1]
         r2 == registers[op.reg_2]
     IN \/ /\ Unusable(refcnt, {r1, r2})
           /\ Crash
        \/ /\ \E r3 \in HostResults(refcnt, {r1, r2}) :
                /\ Install(op.reg_3, r3)
                /\ err' = ErrAfter(r3)
                /\ Goto(pc + SizeOfRegOp)
           /\ UNCHANGED << inputVars, estate, exc, result, intVars, hostVars >>

\* PyNumber_Power(r1, r2, Py_None); the handler then releases the occupant
\* of reg_2 and overwrites reg_3.
BinaryPower ==
  /\ Ready(BinaryPowerLabels)
  /\ LET op == InstrAt(pc)
         r1 == registers[op.reg_1]
         r2 == registers[op.reg_2]
     IN \/ /\ Unusable(refcnt, {r1, r2})
           /\ Crash
        \/ /\ \E r3 \in HostResults(refcnt, {r1, r2}) :
                /\ registers' = [registers EXCEPT ![op.reg_3] = r3]
                /\ refcnt' = Py_XDECREF(IF r3 = NULL THEN refcnt
                                                     ELSE Py_INCREF(refcnt, r3),
                                        registers[op.reg_2])
                /\ err' = ErrAfter(r3)
                /\ Goto(pc + SizeOfRegOp)
           /\ UNCHANGED << inputVars, estate, exc, result, intVars, hostVars >>

UnaryOp ==
  /\ Ready(UnaryOpLabels)
  /\ LET op == InstrAt(pc)
         r1 == registers[op.reg_1]
     IN \/ /\ Unusable(refcnt, {r1})
           /\ Crash
        \/ /\ \E r2 \in HostResults(refcnt, {r1}) :
                /\ Install(op.reg_2, r2)
                /\ err' = ErrAfter(r2)
                /\ Goto(pc + SizeOfRegOp)
           /\ UNCHANGED << inputVars, estate, exc, result, intVars, hostVars >>

\* The two canonical truth objects of the host.
Py_False == 1

Py_True == 2

NoHostCall == [fn |-> "none", o |-> NULL, key |-> NULL, v |-> NULL]

\* The sub-ops of COMPARE_OP that the specialized comparisons name; the
\* orderings are PyCmp_LT (0) .. PyCmp_GE.
PyCmp_LE == 1

PyCmp_EQ == 2

PyCmp_GE == 5

PyCmp_IS == 8

PyCmp_IS_NOT == 9

\* Py_True or Py_False for a C truth value.
PyBool(b) == IF b THEN Py_True ELSE Py_False

\* IntegerOps::compare, then FloatOps::compare when that returned NULL:
\* the results the two can give, NULL when neither takes the operands or
\* the sub-op.  The values of the numbers are not modelled: one object
\* has one value, two objects compare either way; an identity test
\* compares the handles.
SpecializedCompare(r1, r2, arg) ==
  IF ob_type[r1] = ob_type[r2] /\ ob_type[r1] \in {"int", "float"}
    THEN IF arg <= PyCmp_GE
           THEN IF r1 = r2
                  THEN {PyBool(arg \in {PyCmp_LE, PyCmp_EQ, PyCmp_GE})}
                  ELSE {Py_True, Py_False}
         ELSE IF arg = PyCmp_IS THEN {PyBool(r1 = r2)}
         ELSE IF arg = PyCmp_IS_NOT THEN {PyBool(r1 # r2)}
         ELSE {NULL}
    ELSE {NULL}

\* COMPARE_OP: the specialized comparisons, then PyObject_RichCompare with
\* the sub-op as it is when they returned NULL.
CompareOp ==
  /\ Ready({"op_COMPARE_OP"})
  /\ LET op == InstrAt(pc)
         r1 == registers[op.reg_1]
         r2 == registers[op.reg_2]
     IN \/ /\ Unusable(refcnt, {r1, r2})
           /\ Crash
        \/ /\ NULL \notin {r1, r2}
           /\ \E fast \in SpecializedCompare(r1, r2, op.arg) :
                IF fast # NULL
                  THEN /\ Install(op.reg_3, fast)
                       /\ hostCall' = NoHostCall
                       /\ UNCHANGED err
                  ELSE \E r3 \in HostResults(refcnt, {r1, r2}) :
                         /\ Install(op.reg_3, r3)
                         /\ hostCall' = [fn |-> "PyObject_RichCompare",
                                         o |-> r1, key |-> r2, v |-> op.arg]
                         /\ err' = ErrAfter(r3)
           /\ Goto(pc + SizeOfRegOp)
           /\ UNCHANGED << inputVars, estate, exc, result, intVars, gil,
                           callVars, excInfo, auxVars >>

\* The operand of a host call made after the release of the destination,
\* when that release already deallocated it.
ReadAfterRelease(rc, o) == IF o # NULL /\ rc[o] = 0 THEN {o} ELSE {}

LoadAttr ==
  /\ Ready({"op_LOAD_ATTR"})
  /\ LET op == InstrAt(pc)
         obj == registers[op.reg_1]
         \* the destination is released before the attribute is fetched
         rc1 == Py_XDECREF(refcnt, registers[op.reg_2])
     IN \/ /\ Unusable(rc1, {obj})
           /\ Crash
        \/ /\ \E res \in HostResults(rc1, {obj}) :
                /\ registers' = [registers EXCEPT ![op.reg_2] = res]
                /\ refcnt' = IF res = NULL THEN rc1 ELSE Py_INCREF(rc1, res)
                /\ err' = ErrAfter(res)
                /\ Goto(pc + SizeOfRegOp)
           /\ freed' = freed \cup ReadAfterRelease(rc1, obj)
           /\ UNCHANGED << inputVars, estate, exc, result, intVars, gil,
                           hostCall, callVars, excInfo, files, invoked, handed,
                           containers >>

\* CONST_INDEX: reg_2 = list[arg], the destination released before the
\* item is fetched; the result is retained once more without a test for
\* NULL.
ConstIndex ==
  /\ Ready({"op_CONST_INDEX"})
  /\ LET op == InstrAt(pc)
         list == registers[op.reg_1]
         rc1 == Py_XDECREF(refcnt, registers[op.reg_2])
     IN \/ /\ Unusable(rc1, {list})
           /\ Crash
        \/ /\ list # NULL
           /\ NULL \in HostResults(rc1, {list})
           /\ Crash
        \/ /\ list # NULL
           /\ \E res \in HostResults(rc1, {list}) \ {NULL} :
                /\ rc1[res] + 1 < MaxRef
                /\ registers' = [registers EXCEPT ![op.reg_2] = res]
                /\ refcnt' = Py_INCREF(Py_INCREF(rc1, res), res)
           /\ Goto(pc + SizeOfRegOp)
           /\ freed' = freed \cup ReadAfterRelease(rc1, list)
           /\ UNCHANGED << inputVars, estate, err, exc, result, intVars, gil,
                           hostCall, callVars, excInfo, files, invoked, handed,
                           containers >>

GetIter ==
  /\ Ready({"op_GET_ITER"})
  /\ LET op == InstrAt(pc)
         r1 == registers[op.reg_1]
     IN \/ /\ Unusable(refcnt, {r1})
           /\ Crash
        \/ /\ \E res \in HostResults(refcnt, {r1}) :
                /\ Install(op.reg_2, res)
                /\ err' = ErrAfter(res)
                /\ Goto(pc + SizeOfRegOp)
           /\ UNCHANGED << inputVars, estate, exc, result, intVars, hostVars >>

Slice ==
  /\ Ready({"op_SLICE"})
  /\ LET op == InstrAt(pc)
         list == registers[op.reg_1]
         left == IF op.reg_2 # kBadRegister THEN {registers[op.reg_2]} ELSE {}
         right == IF op.reg_3 # kBadRegister THEN {registers[op.reg_3]} ELSE {}
     IN \/ /\ Unusable(refcnt, {list} \cup left \cup right)
           /\ Crash
        \/ /\ list # NULL
           /\ \E res \in HostResults(refcnt, {list}) :
                \* the prior occupant of reg_4 is overwritten, not released
                /\ registers' = [registers EXCEPT ![op.reg_4] = res]
                /\ refcnt' = IF res = NULL THEN refcnt ELSE Py_INCREF(refcnt, res)
                /\ err' = ErrAfter(res)
                /\ Goto(pc + SizeOfRegOp)
           /\ UNCHANGED << inputVars, estate, exc, result, intVars, hostVars >>

\* A host call whose int status the handler drops: PyObject_SetItem,
\* PyObject_SetAttr, PyList_Append.  Failure only sets the error indicator.
\* call is the store asked of the host: function, object, key, value.
StatusCall(S, call) ==
  \/ /\ Unusable(refcnt, S)
     /\ Crash
  \/ /\ \E ok \in (IF NULL \in S THEN {FALSE} ELSE BOOLEAN) :
          err' = IF ok THEN err ELSE "HostError"
     /\ hostCall' = call
     /\ Goto(pc + SizeOfRegOp)
     /\ UNCHANGED << inputVars, estate, registers, refcnt, exc, result,
                     intVars, gil, callVars, excInfo, auxVars >>

\* PyObject_SetItem(list, key, value)
StoreSubscr ==
  /\ Ready({"op_STORE_SUBSCR"})
  /\ LET op == InstrAt(pc)
         key == registers[op.reg_1]
         list == registers[op.reg_2]
         value == registers[op.reg_3]
     IN StatusCall({key, list, value},
                   [fn |-> "PyObject_SetItem", o |-> list, key |-> key,
                    v |-> value])

\* PyObject_SetAttr(o, attr_name, v) is called as PyObject_SetAttr(t, key,
\* value) with t = names[arg], key = registers[reg_1].
StoreAttrCall(t, key, value) ==
  [fn |-> "PyObject_SetAttr", o |-> t, key |-> key, v |-> value]

StoreAttr ==
  /\ Ready({"op_STORE_ATTR"})
  /\ LET op == InstrAt(pc)
         t == names[op.arg + 1]
         key == registers[op.reg_1]
         value == registers[op.reg_2]
     IN StatusCall({t, key, value}, StoreAttrCall(t, key, value))

\* PyList_Append(list, item)
ListAppend ==
  /\ Ready({"op_LIST_APPEND"})
  /\ LET op == InstrAt(pc)
     IN StatusCall({registers[op.reg_1], registers[op.reg_2]},
                   [fn |-> "PyList_Append", o |-> registers[op.reg_1],
                    key |-> NULL, v |-> registers[op.reg_2]])

\* What an allocation of the host can hand back: NULL (no memory), or an
\* object no one referenced before.
NewObjects(rc) == {NULL} \cup { o \in Obj : rc[o] = 0 }

\* BUILD_TUPLE / BUILD_LIST: the items are stored without a retain and the
\* destination is overwritten without a release.
BuildTuple ==
  /\ Ready({"op_BUILD_TUPLE", "op_BUILD_LIST"})
  /\ LET op == InstrAt(pc)
     IN \E t \in NewObjects(refcnt) :
          IF t = NULL /\ op.arg > 0
            THEN Crash
            ELSE /\ registers' = [registers EXCEPT ![op.regs[op.arg + 1]] = t]
                 /\ refcnt' = IF t = NULL THEN refcnt ELSE Py_INCREF(refcnt, t)
                 /\ containers' =
                      IF t = NULL THEN containers
                      ELSE { c \in containers : c.id # t }
                           \cup {[id |-> t,
                                  items |-> [i \in 1..op.arg |->
                                               registers[op.regs[i]]]]}
                 /\ err' = ErrAfter(t)
                 /\ Goto(pc + SizeOf(op))
                 /\ UNCHANGED << inputVars, estate, exc, result, intVars, gil,
                                 hostCall, callVars, excInfo, files, invoked,
                                 handed, freed >>

\* LOAD_FAST: the value of reg_1 is retained, then the occupant of reg_2 is
\* released and replaced by it.
LoadFast ==
  /\ Ready({"op_LOAD_FAST"})
  /\ LET op == InstrAt(pc)
         r1 == registers[op.reg_1]
     IN \/ /\ Unusable(refcnt, {r1})
           /\ Crash
        \/ /\ r1 # NULL
           /\ registers' = [registers EXCEPT ![op.reg_2] = r1]
           /\ refcnt' = Py_XDECREF(Py_INCREF(refcnt, r1), registers[op.reg_2])
           /\ Goto(pc + SizeOfRegOp)
           /\ UNCHANGED << inputVars, estate, err, exc, result, intVars,
                           hostVars >>

\* STORE_FAST: the occupant of reg_2 is released first, then the value of
\* reg_1 is retained and stored.  When the release deallocated the very
\* object reg_1 holds, the retain works on freed memory: the process dies,
\* or goes on with a register that holds the dead object.
StoreFast ==
  /\ Ready({"op_STORE_FAST"})
  /\ LET op == InstrAt(pc)
         r1 == registers[op.reg_1]
         released == Py_XDECREF(refcnt, registers[op.reg_2])
     IN \/ /\ Unusable(released, {r1})
           /\ Crash
        \/ /\ r1 # NULL
           /\ registers' = [registers EXCEPT ![op.reg_2] = r1]
           /\ IF released[r1] = 0
                THEN /\ refcnt' = released
                     /\ freed' = freed \cup {r1}
                ELSE /\ refcnt' = Py_INCREF(released, r1)
                     /\ UNCHANGED freed
           /\ Goto(pc + SizeOfRegOp)
           /\ UNCHANGED << inputVars, estate, err, exc, result, intVars, gil,
                           hostCall, callVars, excInfo, files, invoked, handed,
                           containers >>

\* A chain of PyDict_GetItem over the scopes, each tried only when the one
\* before it has no binding for names[i]; NULL when none has.
RECURSIVE LookupLast(_, _)
LookupLast(scopes, i) ==
  IF scopes = << >> THEN NULL
  ELSE IF LookupLast(Tail(scopes), i) # NULL THEN LookupLast(Tail(scopes), i)
  ELSE Head(scopes)[i]

RECURSIVE Lookup(_, _)
Lookup(scopes, i) ==
  IF scopes = << >> THEN NULL
  ELSE IF Head(scopes)[i] # NULL THEN Head(scopes)[i]
  ELSE Lookup(Tail(scopes), i)

\* The tail shared by LoadGlobal and LoadName: a miss throws NameError,
\* which eval catches; a hit is retained and installed in reg_1.
LoadFrom(scopes) ==
  LET op == InstrAt(pc)
      r2 == Lookup(scopes, op.arg + 1)
  IN /\ IF r2 = NULL
          THEN /\ estate' = "Failing"
               /\ err' = "NameError"
               /\ result' = NULL
               /\ UNCHANGED << frameVars, dispatched >>
          ELSE /\ Install(op.reg_1, r2)
               /\ Goto(pc + SizeOfRegOp)
               /\ UNCHANGED << estate, err, result >>
     /\ UNCHANGED << inputVars, exc, intVars, hostVars >>

LoadGlobal ==
  /\ Ready({"op_LOAD_GLOBAL"})
  /\ LoadFrom(<< globals_, builtins_ >>)

\* state->locals() is taken to be the frame's locals dictionary.
LoadName ==
  /\ Ready({"op_LOAD_NAME"})
  /\ LoadFrom(<< locals_, globals_, builtins_ >>)

\* if (i < 0) i += PyList_GET_SIZE(list)
NormalizeIndexNoWrap(i, n) == i

NormalizeIndex(i, n) == IF i < 0 THEN i + n ELSE i

\* The fast path of BinarySubscr on an exact list and an exact integer:
\* the item, or NULL when the index is out of range.
ListItemFast(items, k) ==
  LET i == NormalizeIndex(k, Len(items))
  IN IF i >= 0 /\ i < Len(items) THEN items[i + 1] ELSE NULL

\* Without a fast-path result PyObject_GetItem decides: on an exact list
\* and integer it can only report IndexError; on other operands it hands
\* back a new reference or fails.
BinarySubscr ==
  /\ Ready({"op_BINARY_SUBSCR"})
  /\ LET op == InstrAt(pc)
         list == registers[op.reg_1]
         key == registers[op.reg_2]
         fast == IF exact THEN ListItemFast(listItems, keyVal) ELSE NULL
         slow == IF exact THEN {NULL} ELSE HostResults(refcnt, {list, key})
     IN \/ /\ Unusable(refcnt, {list, key})
           /\ Crash
        \/ /\ NULL \notin {list, key}
           /\ \E res \in (IF fast # NULL THEN {fast} ELSE slow) :
                IF res = NULL
                  THEN \* throw RException(): the host error is what eval reports
                       /\ estate' = "Failing"
                       /\ err' = IF exact THEN "IndexError" ELSE "HostError"
                       /\ result' = NULL
                       /\ UNCHANGED << frameVars, dispatched >>
                  ELSE /\ Install(op.reg_3, res)
                       /\ Goto(pc + SizeOfRegOp)
                       /\ UNCHANGED << estate, err, result >>
           /\ UNCHANGED << inputVars, exc, intVars, hostVars >>

\* The argument tuple t lives on after the frame dropped it.
TupleKept(t) == \E k \in kept : k.id = t

\* Py_XDECREF(call_args): a tuple nobody else holds is deallocated, which
\* releases each of its items.
ReleaseCallArgs(rc, t) ==
  IF t = NULL THEN rc
  ELSE IF TupleKept(t) THEN rc
  ELSE DecrefAll(rc, tupleItems[t])

\* The cached tuple can take the na positionals as it is.
CacheFits(t, na) ==
  IF t = NULL THEN FALSE ELSE Len(tupleItems[t]) = na

RECURSIVE IncrefAll(_, _)
\* One retain per item: what a nested frame holds on to for good.
IncrefAll(rc, items) ==
  IF items = << >> THEN rc
  ELSE IncrefAll(Py_INCREF(rc, Head(items)), Tail(items))

\* kwdict when nk = 0: no dict is made.
NoKwDict == [made |-> FALSE, pairs |-> {}]

\* The (name, value) register pairs the keyword loop visits: the loop
\* variable starts at na and stops at nk * 2, in steps of two.
RECURSIVE KwPairs(_, _, _)
KwPairs(op, i, nk) ==
  IF i < nk * 2
    THEN {<< op.regs[i + 1], op.regs[i + 2] >>} \cup KwPairs(op, i + 2, nk)
    ELSE {}

\* PyDict_SetItem retains the key and the value it stores.
RECURSIVE RetainPairs(_, _)
RetainPairs(rc, ps) ==
  IF ps = {} THEN rc
  ELSE LET q == CHOOSE x \in ps : TRUE
       IN RetainPairs(Py_INCREF(Py_INCREF(rc, q[1]), q[2]), ps \ {q})

\* What the first attempt to run the callee comes to.  A native callee is
\* run by PyCFunction_Call; any other callee, when there is no keyword
\* dict, is handed to eval_python, which returns NULL before running it
\* when it does not compile, throws when the call has the wrong argument
\* count, and else runs it in a frame that retains each argument; with a
\* keyword dict nothing is tried.  ran: the call that took the callee on;
\* res: the result, NULL included.
FirstCall(native, hasKw, rc, callee) ==
  IF native
    THEN { [ran |-> << "PyCFunction_Call" >>, res |-> r, framed |-> FALSE,
            thrown |-> FALSE] : r \in HostResults(rc, {callee}) }
  ELSE IF ~hasKw
    THEN { [ran |-> << "eval_python" >>, res |-> r, framed |-> TRUE,
            thrown |-> FALSE] : r \in HostResults(rc, {callee}) }
         \cup { [ran |-> << >>, res |-> NULL, framed |-> FALSE,
                 thrown |-> FALSE],
                [ran |-> << "eval_python" >>, res |-> NULL, framed |-> FALSE,
                 thrown |-> TRUE] }
  ELSE { [ran |-> << >>, res |-> NULL, framed |-> FALSE, thrown |-> FALSE] }

\* if (!res) res = PyObject_Call(fn, args, kwdict): run after any first
\* attempt that left res NULL.
SecondCall(first) == first.res = NULL

\* CALL_FUNCTION and its variants.  The positionals are written into the
\* frame's cached tuple (a new one when the size changed), the keyword dict
\* is filled, and both are handed to the callee, which may keep a reference
\* to the tuple.
CallFunction ==
  /\ Ready(CallLabels)
  /\ LET op == InstrAt(pc)
         na == NumCallArgs(op)
         nk == NumCallKw(op)
         n == nk * 2 + na
         callee == registers[op.regs[n + 1]]
         dst == op.regs[n + 2]
         items == [i \in 1..na |-> registers[op.regs[i]]]
         fits == CacheFits(call_args, na)
         t == IF fits THEN call_args ELSE Len(tupleItems) + 1
         rc0 == IF fits THEN refcnt ELSE ReleaseCallArgs(refcnt, call_args)
         visited == IF nk > 0 THEN KwPairs(op, na, nk) ELSE {}
         pairs == { << registers[q[1]], registers[q[2]] >> : q \in visited }
         kwdict == IF nk > 0 THEN [made |-> TRUE, pairs |-> pairs]
                             ELSE NoKwDict
         operands == {callee} \cup UNION { {q[1], q[2]} : q \in pairs }
     IN \/ /\ Unusable(rc0, operands)
           /\ Crash
        \/ /\ NULL \notin operands
           /\ call_args' = t
           /\ tupleItems' = IF fits THEN [tupleItems EXCEPT ![t] = items]
                                   ELSE Append(tupleItems, items)
           /\ handed' = kwdict
           /\ \E native \in BOOLEAN :
              \E first \in FirstCall(native, nk > 0, rc0, callee) :
                LET rc1 == RetainPairs(rc0, pairs)
                    rc2 == IF first.framed
                                /\ NULL \notin { items[i] : i \in 1..na }
                             THEN IncrefAll(rc1, items) ELSE rc1
                IN IF first.thrown
                     THEN \* the RException of the nested frame_from_python
                          \* unwinds into eval's handler
                          /\ estate' = "Failing"
                          /\ err' = "TypeError"
                          /\ result' = NULL
                          /\ refcnt' = rc2
                          /\ invoked' = first.ran
                          /\ UNCHANGED << registers, pc, lbl, dispatched, kept >>
                     ELSE \E res \in (IF SecondCall(first)
                                        THEN HostResults(rc0, {callee})
                                        ELSE {first.res}) :
                            /\ invoked' = IF SecondCall(first)
                                            THEN Append(first.ran,
                                                        "PyObject_Call")
                                            ELSE first.ran
                            /\ \E keeps \in BOOLEAN :
                                 kept' = IF keeps
                                           THEN kept \cup {[id |-> t,
                                                            seen |-> items]}
                                           ELSE kept
                            /\ IF res = NULL
                                 THEN \* throw RException()
                                      /\ estate' = "Failing"
                                      /\ err' = "HostError"
                                      /\ result' = NULL
                                      /\ refcnt' = rc2
                                      /\ UNCHANGED << registers, pc, lbl,
                                                      dispatched >>
                                 ELSE /\ registers' =
                                           [registers EXCEPT ![dst] = res]
                                      /\ refcnt' =
                                           Py_XDECREF(Py_INCREF(rc2, res),
                                                      registers[dst])
                                      /\ Goto(pc + SizeOf(op))
                                      /\ UNCHANGED << estate, err, result >>
           /\ UNCHANGED << inputVars, exc, intVars, gil, hostCall, excInfo,
                           files, freed, containers >>

\* *pc += sizeof(BranchOp): the branch is not taken.
UntakenAsRegOp(p) == p + SizeOfRegOp

Untaken(p) == p + SizeOfBranchOp

\* *pc = state->instructions + op.label: the branch is taken.
TakenPastLabel(op) == op.label + SizeOfBranchOp

Taken(op) == op.label

\* PyIter_Next hands back the next item, or NULL when the iterator is
\* exhausted or failed; NULL takes the branch.
ForIter ==
  /\ Ready({"op_FOR_ITER"})
  /\ LET op == InstrAt(pc)
         it == registers[op.reg_1]
     IN \/ /\ Unusable(refcnt, {it})
           /\ Crash
        \/ /\ it # NULL
           /\ \E r1 \in HostResults(refcnt, {it}) :
                /\ hostCall' = [fn |-> "PyIter_Next", o |-> it, key |-> NULL,
                                v |-> r1]
                /\ IF r1 # NULL
                     THEN /\ Install(op.reg_2, r1)
                          /\ Goto(Untaken(pc))
                          /\ UNCHANGED err
                     ELSE /\ \E failed \in BOOLEAN :
                               err' = IF failed THEN "HostError" ELSE err
                          /\ Goto(Taken(op))
                          /\ UNCHANGED << registers, refcnt >>
           /\ UNCHANGED << inputVars, estate, exc, result, intVars, gil,
                           callVars, excInfo, auxVars >>

\* r1 == Py_False, r1 == Py_True: a comparison of handles, no host call.
IsCanonicalNever(r, v) == FALSE

IsCanonical(r, v) == r = v

\* PyObject_IsTrue: 1, 0, or -1 with an error set.
TruthValues == {0, 1, 0 - 1}

\* PyObject_IsTrue answers for the canonical objects without asking them.
PyObject_IsTrue(v) ==
  IF v = Py_True THEN {1}
  ELSE IF v = Py_False THEN {0}
  ELSE TruthValues

\* The branch of a conditional jump: the canonical object `canon` jumps at
\* once, any other operand jumps when PyObject_IsTrue answers `want`; an
\* error of the truth test falls through.
JumpIf(canon, want) ==
  LET op == InstrAt(pc)
      r1 == registers[op.reg_1]
  IN IF IsCanonical(r1, canon)
       THEN /\ Goto(Taken(op))
            /\ hostCall' = NoHostCall
            /\ UNCHANGED << inputVars, estate, registers, refcnt, err, exc,
                            result, intVars, gil, callVars, excInfo, auxVars >>
       ELSE \/ /\ Unusable(refcnt, {r1})
               /\ Crash
            \/ /\ r1 # NULL
               /\ \E t \in PyObject_IsTrue(r1) :
                    /\ hostCall' = [fn |-> "PyObject_IsTrue", o |-> r1,
                                    key |-> NULL, v |-> t]
                    /\ err' = IF t < 0 THEN "HostError" ELSE err
                    /\ Goto(IF t = want THEN Taken(op) ELSE Untaken(pc))
               /\ UNCHANGED << inputVars, estate, registers, refcnt, exc,
                               result, intVars, gil, callVars, excInfo,
                               auxVars >>

JumpIfFalseOrPop ==
  /\ Ready(JumpIfFalseLabels)
  /\ JumpIf(Py_False, 0)

JumpIfTrueOrPop ==
  /\ Ready(JumpIfTrueLabels)
  /\ JumpIf(Py_True, 1)

(***************************************************************************)
(* PRINT_ITEM(_TO) and PRINT_NEWLINE(_TO).  What a file received is kept   *)
(* as the sequence of writes made to it: an object for PyFile_WriteObject, *)
(* Space or Newline for the two PyFile_WriteString calls.                  *)
(***************************************************************************)
\* sys.stdout, a file object of its own.
SysStdout == NumObjs + 1

FileIds == Obj \cup {SysStdout}

\* The two strings the handlers write themselves.
Space == 0 - 1

Newline == 0 - 2

\* isspace of the C locale: ' ', and \t \n \v \f \r.
isspace(c) == c = 32 \/ c \in 9..13

\* The file the handler writes to: registers[reg_2], or sys.stdout.
PrintFile(op) ==
  IF op.reg_2 # kBadRegister THEN registers[op.reg_2] ELSE SysStdout

\* PyFile_SoftSpace(w, newflag) stores the flag; the handlers use the old
\* flag it returns only in PrintItem.
PyFile_SoftSpace(fs, w, newflag) == [fs EXCEPT ![w].softspace = newflag]

\* A write that succeeded.
Written(fs, w, what) == [fs EXCEPT ![w].out = Append(@, what)]

\* Status of PyFile_WriteString and PyFile_WriteObject.
WriteStatus == {0, 0 - 1}

\* Whether PrintItem sets the soft-space flag after writing v.
SetsSoftSpaceAlways(v) == TRUE

SetsSoftSpace(v) ==
  IF strings[v].isString
    THEN LET s == strings[v].chars
             len == Len(s)
         IN IF len = 0 THEN TRUE
            ELSE IF ~isspace(s[len]) THEN TRUE
            ELSE s[len] = 32
    ELSE TRUE

WriteCall(f, w, what, status) == [fn |-> f, o |-> w, key |-> what, v |-> status]

PrintItem ==
  /\ Ready({"op_PRINT_ITEM", "op_PRINT_ITEM_TO"})
  /\ LET op == InstrAt(pc)
         v == registers[op.reg_1]
         w == PrintFile(op)
     IN IF w = NULL
          THEN /\ hostCall' = WriteCall("PyFile_WriteObject", w, v, 0 - 1)
               /\ err' = "HostError"
               /\ Goto(pc + SizeOfRegOp)
               /\ UNCHANGED << inputVars, estate, registers, refcnt, exc, result,
                               intVars, gil, callVars, excInfo, auxVars >>
          ELSE \/ /\ Unusable(refcnt, {v} \cup ({w} \ {SysStdout}))
                  /\ Crash
               \/ /\ v # NULL
                  /\ LET flag == files[w].softspace
                         cleared == PyFile_SoftSpace(files, w, FALSE)
                     IN \E e1 \in (IF flag THEN WriteStatus ELSE {0}) :
                          IF e1 # 0
                            THEN /\ files' = cleared
                                 /\ hostCall' = WriteCall("PyFile_WriteString",
                                                          w, Space, e1)
                                 /\ err' = "HostError"
                            ELSE LET spaced == IF flag
                                                THEN Written(cleared, w, Space)
                                                ELSE cleared
                                 IN \E e2 \in WriteStatus :
                                      /\ hostCall' = WriteCall(
                                           "PyFile_WriteObject", w, v, e2)
                                      /\ IF e2 # 0
                                           THEN /\ files' = spaced
                                                /\ err' = "HostError"
                                           ELSE /\ files' =
                                                     IF SetsSoftSpace(v)
                                                       THEN PyFile_SoftSpace(
                                                              Written(spaced, w, v),
                                                              w, TRUE)
                                                       ELSE Written(spaced, w, v)
                                                /\ UNCHANGED err
                  /\ Goto(pc + SizeOfRegOp)
                  /\ UNCHANGED << inputVars, estate, registers, refcnt, exc,
                                  result, intVars, gil, callVars, excInfo,
                                  invoked, handed, freed, containers >>

PrintNewline ==
  /\ Ready({"op_PRINT_NEWLINE", "op_PRINT_NEWLINE_TO"})
  /\ LET op == InstrAt(pc)
         w == PrintFile(op)
     IN IF w = NULL
          THEN /\ hostCall' = WriteCall("PyFile_WriteString", w, Newline, 0 - 1)
               /\ err' = "HostError"
               /\ Goto(pc + SizeOfRegOp)
               /\ UNCHANGED << inputVars, estate, registers, refcnt, exc, result,
                               intVars, gil, callVars, excInfo, auxVars >>
          ELSE \/ /\ Unusable(refcnt, {w} \ {SysStdout})
                  /\ Crash
               \/ /\ \E e \in WriteStatus :
                       /\ hostCall' = WriteCall("PyFile_WriteString", w,
                                                Newline, e)
                       /\ IF e = 0
                            THEN /\ files' = PyFile_SoftSpace(
                                                Written(files, w, Newline),
                                                w, FALSE)
                                 /\ UNCHANGED err
                            ELSE /\ err' = "HostError"
                                 /\ UNCHANGED files
                  /\ Goto(pc + SizeOfRegOp)
                  /\ UNCHANGED << inputVars, estate, registers, refcnt, exc,
                                  result, intVars, gil, callVars, excInfo,
                                  invoked, handed, freed, containers >>

JumpAbsolute ==
  /\ Ready({"op_JUMP_ABSOLUTE"})
  /\ Goto(InstrAt(pc).label)
  /\ UNCHANGED << inputVars, estate, registers, refcnt, err, exc, result, intVars, hostVars >>

\* throw result, caught by eval's catch (PyObject*): eval returns it.
ReturnValue ==
  /\ Ready({"op_RETURN_VALUE"})
  /\ LET r == registers[InstrAt(pc).reg_1]
     IN IF r = NULL
          THEN Crash
          ELSE /\ refcnt' = Py_INCREF(refcnt, r)
               /\ result' = r
               /\ estate' = "Returning"
               /\ UNCHANGED << inputVars, registers, pc, lbl, err, exc,
                               dispatched, intVars, hostVars >>

\* BAD_OP and op_BADCODE: throw RException(SystemError), caught by eval's
\* catch (RException&), which sets the host error and returns NULL.
BadOp ==
  /\ estate = "Dispatching"
  /\ lbl \in BadOpLabels
  /\ estate' = "Failing"
  /\ err' = "SystemError"
  /\ result' = NULL
  /\ UNCHANGED << inputVars, frameVars, exc, dispatched, intVars, hostVars >>

\* Control left the handlers, or a handler decodes bytes that are no
\* instruction of its shape.
WildJump ==
  /\ estate = "Dispatching"
  /\ lbl \notin BadOpLabels
  /\ \/ lbl = "wild"
     \/ ~ValidPc(pc)
     \/ ~(UsedRegs(lbl, InstrAt(pc)) \subseteq RegIdx)
  /\ Crash

(***************************************************************************)
(* eval_python after eval returned: delete frame; return result.           *)
(* ~RegisterFrame frees the register array and drops call_args; it does    *)
(* not visit the registers.                                                *)
(***************************************************************************)
DeleteFrame ==
  /\ estate \in {"Returning", "Failing"}
  /\ estate' = "Returned"
  /\ registers' = [i \in RegIdx |-> NULL]
  /\ refcnt' = ReleaseCallArgs(refcnt, call_args)
  /\ call_args' = NULL
  /\ UNCHANGED << inputVars, pc, lbl, err, exc, result, dispatched,
                  intVars, gil, hostCall, tupleItems, kept, excInfo, auxVars >>

(***************************************************************************)
(* The integer fast path: IntegerOps::add, sub, mul, div, mod (macro _OP)  *)
(* on a native long of WordBits bits, and the handler that falls back to   *)
(* the generic host operator when the fast path returns NULL.              *)
(***************************************************************************)
RECURSIVE Pow2(_)
Pow2(n) == IF n = 0 THEN 1 ELSE 2 * Pow2(n - 1)

LONG_MIN == 0 - Pow2(WordBits - 1)
LONG_MAX == Pow2(WordBits - 1) - 1
Long == LONG_MIN..LONG_MAX

\* (unsigned long) x
ToUnsigned(x) == IF x < 0 THEN x + Pow2(WordBits) ELSE x

\* (long) u
ToLong(u) == IF u > LONG_MAX THEN u - Pow2(WordBits) ELSE u

\* (x ^ y) < 0: the sign bits of x and y differ.
XorNegative(x, y) == (x < 0) # (y < 0)

\* The boxed results a handler can hold: NULL, or an integer object.
IntNull == [null |-> TRUE, val |-> 0]
PyInt_FromLong(i) == [null |-> FALSE, val |-> i]

IntOps == {"add", "sub", "mul", "div", "mod"}

\* (unsigned long) a op b: b is converted to unsigned long as well, so the
\* operator is the unsigned one; defined when the divisor is not zero.
UnsignedOp(name, a, b) ==
  CASE name = "add" -> (ToUnsigned(a) + ToUnsigned(b)) % Pow2(WordBits)
    [] name = "sub" -> (ToUnsigned(a) + Pow2(WordBits) - ToUnsigned(b)) % Pow2(WordBits)
    [] name = "mul" -> (ToUnsigned(a) * ToUnsigned(b)) % Pow2(WordBits)
    [] name = "div" -> ToUnsigned(a) \div ToUnsigned(b)
    [] OTHER -> ToUnsigned(a) % ToUnsigned(b)

\* The overflow test of _OP: (i ^ a) < 0 && (i ^ b) < 0.
SignCrossCheckOnlyA(i, a, b) == XorNegative(i, a)

SignCrossCheck(i, a, b) == XorNegative(i, a) /\ XorNegative(i, b)

\* The operator divides and the divisor is zero.
DividesByZero(name, b) == name \in {"div", "mod"} /\ b = 0

\* The tail of _OP on the raw result i: the overflow test, then boxing.
Checked(i, a, b) ==
  IF SignCrossCheck(i, a, b) THEN IntNull ELSE PyInt_FromLong(i)

\* IntegerOps::name(w, v) on two exact integers w = a, v = b.
IntegerOp(name, a, b) == Checked(ToLong(UnsignedOp(name, a, b)), a, b)

\* Floor of x / y for y # 0.
FloorDiv(x, y) ==
  LET ax == IF x < 0 THEN 0 - x ELSE x
      ay == IF y < 0 THEN 0 - y ELSE y
      q == ax \div ay
  IN IF (x < 0) = (y < 0) THEN q
     ELSE IF q * ay = ax THEN 0 - q ELSE 0 - q - 1

\* The generic host operators of the BINARY_OP3 instantiations on integers:
\* exact (widened) results; division and remainder floor and raise
\* ZeroDivisionError on a zero divisor.
ObjF(name, a, b) ==
  CASE name = "add" -> PyInt_FromLong(a + b)
    [] name = "sub" -> PyInt_FromLong(a - b)
    [] name = "mul" -> PyInt_FromLong(a * b)
    [] name = "div" -> IF b = 0 THEN IntNull ELSE PyInt_FromLong(FloorDiv(a, b))
    [] OTHER -> IF b = 0 THEN IntNull
                ELSE PyInt_FromLong(a - b * FloorDiv(a, b))

NotRun == [path |-> "none", res |-> IntNull]

\* BinaryOpWithSpecialization::_eval: r3 = IntegerF(r1, r2); if that is
\* NULL, r3 = ObjF(r1, r2); registers[reg_3] = r3.
Specialized(fast, name, a, b) ==
  IF fast # IntNull
    THEN [path |-> "fast", res |-> fast]
    ELSE [path |-> "generic", res |-> ObjF(name, a, b)]

\* A native division by zero is undefined: the process traps, or the
\* division leaves an arbitrary word that goes through the rest of _OP.
IntegerBinaryOp ==
  /\ intRes = NotRun
  /\ IF DividesByZero(intOp, intB)
       THEN intRes' \in { [path |-> "trap", res |-> IntNull] }
              \cup { Specialized(Checked(i, intA, intB), intOp, intA, intB) :
                       i \in Long }
       ELSE intRes' = Specialized(IntegerOp(intOp, intA, intB), intOp, intA, intB)
  /\ UNCHANGED << inputVars, estate, frameVars, err, exc, result, dispatched,
                  intOp, intA, intB, hostVars >>

\* No exception message was formatted.
NoCounts == [expected |-> 0 - 1, got |-> 0 - 1]

\* A file nothing was written to: tp_new leaves f_softspace 0.
NewFile == [softspace |-> FALSE, out |-> << >>]

\* An object for which PyString_Check is false.
NotAString == [isString |-> FALSE, chars |-> << >>]

\* No object is an exact integer or float.
Untyped == ob_type = [o \in Obj |-> "object"]

\* Nothing was printed yet and no object is a string or a number.
IdleFiles ==
  /\ files = [f \in FileIds |-> NewFile]
  /\ strings = [o \in Obj |-> NotAString]
  /\ Untyped

\* Nothing was called, freed or built yet.

IdleAux ==
  /\ invoked = << >>
  /\ handed = [made |-> FALSE, pairs |-> {}]
  /\ freed = {}
  /\ containers = {}

\* No name is bound in any scope.
NoBindings == [i \in 1..Len(names) |-> NULL]

\* The variables of handlers that the run at hand does not exercise.
IdleScopes ==
  /\ locals_ = NoBindings
  /\ globals_ = NoBindings
  /\ builtins_ = NoBindings

IdleSubscr ==
  /\ exact = FALSE
  /\ listItems = << >>
  /\ keyVal = 0

IdleInt ==
  /\ intOp = "none"
  /\ intA = 0
  /\ intB = 0
  /\ intRes = NotRun

\* The frame before eval_python is entered; the calling thread holds the
\* host lock or not.
EntryState(held) ==
  /\ estate = "Entry"
  /\ registers = [i \in RegIdx |-> NULL]
  /\ refcnt = InitRefcnt(fn, args)
  /\ pc = 0
  /\ lbl = "none"
  /\ err = "none"
  /\ exc = "none"
  /\ result = NULL
  /\ dispatched = 0
  /\ gil = [held |-> held, atEntry |-> held, ensures |-> 0, releases |-> 0]
  /\ hostCall = NoHostCall
  /\ call_args = NULL
  /\ tupleItems = << >>
  /\ kept = {}
  /\ excInfo = NoCounts
  /\ IdleAux

InitInt ==
  /\ IdleFiles
  /\ IdleScopes
  /\ IdleSubscr
  /\ gil = [held |-> TRUE, atEntry |-> TRUE, ensures |-> 0, releases |-> 0]
  /\ hostCall = NoHostCall
  /\ call_args = NULL
  /\ tupleItems = << >>
  /\ kept = {}
  /\ excInfo = NoCounts
  /\ IdleAux
  /\ code = << >>
  /\ fn \in Functions
  /\ args = [isTuple |-> TRUE, items |-> << >>]
  /\ compiles = TRUE
  /\ estate = "Entry"
  /\ registers = [i \in RegIdx |-> NULL]
  /\ refcnt = InitRefcnt(fn, args)
  /\ pc = 0
  /\ lbl = "none"
  /\ err = "none"
  /\ exc = "none"
  /\ result = NULL
  /\ dispatched = 0
  /\ intOp \in IntOps
  /\ intA \in Long
  /\ intB \in Long
  /\ intRes = NotRun

NextInt == IntegerBinaryOp

SpecInt == InitInt /\ [][NextInt]_vars

Init ==
  /\ IdleFiles
  /\ IdleScopes
  /\ IdleSubscr
  /\ gil = [held |-> TRUE, atEntry |-> TRUE, ensures |-> 0, releases |-> 0]
  /\ hostCall = NoHostCall
  /\ call_args = NULL
  /\ tupleItems = << >>
  /\ kept = {}
  /\ excInfo = NoCounts
  /\ IdleAux
  /\ code \in Programs
  /\ fn \in Functions
  /\ args \in ArgInputs
  /\ compiles \in BOOLEAN
  /\ estate = "Entry"
  /\ registers = [i \in RegIdx |-> NULL]
  /\ refcnt = InitRefcnt(fn, args)
  /\ pc = 0
  /\ lbl = "none"
  /\ err = "none"
  /\ exc = "none"
  /\ result = NULL
  /\ dispatched = 0
  /\ intOp = "none"
  /\ intA = 0
  /\ intB = 0
  /\ intRes = NotRun

Next ==
  \/ EvalPython
  \/ BinaryOpWithSpecialization
  \/ BinaryOp
  \/ BinaryPower
  \/ UnaryOp
  \/ CompareOp
  \/ LoadAttr
  \/ GetIter
  \/ Slice
  \/ StoreSubscr
  \/ StoreAttr
  \/ ListAppend
  \/ JumpAbsolute
  \/ ReturnValue
  \/ BadOp
  \/ WildJump
  \/ DeleteFrame

Spec == Init /\ [][Next]_vars

(***************************************************************************)
(* Frame construction over every shape of callable and argument tuple: a   *)
(* plain function or a bound method, with and without defaults, called     *)
(* with too few, enough and surplus actuals, from a thread that holds the  *)
(* host lock or from a foreign one.                                        *)
(***************************************************************************)
\* Longest argument tuple handed to eval_python.
MaxArgs == 3

RECURSIVE TuplesOf(_, _)
\* Every tuple of n items of S.
TuplesOf(S, n) ==
  IF n = 0 THEN { << >> }
  ELSE { Append(t, x) : t \in TuplesOf(S, n - 1), x \in S }

\* co_argcount is bounded by the registers the compiler reserved for the
\* parameters; self of a bound method is the first parameter.
CtorFunctions ==
  { [co_argcount |-> n, defaults |-> d, self |-> s] :
      n \in 0..(num_registers - Len(consts)),
      d \in UNION { TuplesOf(Obj, k) : k \in 0..(num_registers - Len(consts)) },
      s \in {NULL, NumObjs} }

CtorArgs ==
  { [isTuple |-> FALSE, items |-> << >>] }
  \cup { [isTuple |-> TRUE, items |-> t] :
           t \in UNION { TuplesOf(Obj, k) : k \in 0..MaxArgs } }

InitCtor ==
  /\ IdleFiles
  /\ IdleScopes
  /\ IdleSubscr
  /\ IdleInt
  /\ code \in { p \in Programs : Len(p) = 1 /\ p[1].kind = "RegOp" }
  /\ fn \in { f \in CtorFunctions :
                /\ Len(f.defaults) <= f.co_argcount
                /\ f.self # NULL => f.co_argcount >= 1 }
  /\ args \in CtorArgs
  /\ compiles \in BOOLEAN
  /\ \E held \in BOOLEAN : EntryState(held)

NextCtor ==
  \/ EvalPython
  \/ ReturnValue
  \/ DeleteFrame

SpecCtor == InitCtor /\ [][NextCtor]_vars

(***************************************************************************)
(* Register code of the three instruction shapes with every kind of        *)
(* branch, as the compiler emits it: every label is the offset of an       *)
(* instruction start and the stream ends in a return or a jump.            *)
(***************************************************************************)
PcBodyOps ==
  { RegOp(Opcode("op_UNARY_NEGATIVE"), 0, 0, 1, kBadRegister, kBadRegister),
    VarRegOp(Opcode("op_BUILD_TUPLE"), 0, << 1 >>),
    VarRegOp(Opcode("op_BUILD_LIST"), 1, << 0, 1 >>) }
  \cup { BranchOp(Opcode("op_FOR_ITER"), 0, 1, j) : j \in 1..MaxProgLen }
  \cup { BranchOp(Opcode(l), 1, kBadRegister, j) :
           l \in JumpIfFalseLabels \cup JumpIfTrueLabels, j \in 1..MaxProgLen }

PcStreams ==
  UNION { { b \o << f >> : b \in [1..n -> PcBodyOps], f \in FinalOps } :
            n \in 0..(MaxProgLen - 1) }

PcPrograms ==
  { Assemble(s) : s \in { t \in PcStreams :
      \A i \in 1..Len(t) : t[i].kind = "BranchOp" => t[i].label <= Len(t) } }

InitPc ==
  /\ IdleFiles
  /\ IdleScopes
  /\ IdleSubscr
  /\ IdleInt
  /\ code \in PcPrograms
  /\ fn \in Functions
  /\ args \in { [isTuple |-> TRUE, items |-> << o >>] :
                 o \in {Py_False, Py_True, NumObjs} }
  /\ compiles = TRUE
  /\ EntryState(TRUE)

NextPc ==
  \/ EvalPython
  \/ UnaryOp
  \/ BuildTuple
  \/ ForIter
  \/ JumpIfFalseOrPop
  \/ JumpIfTrueOrPop
  \/ JumpAbsolute
  \/ ReturnValue
  \/ DeleteFrame

SpecPc == InitPc /\ [][NextPc]_vars

(***************************************************************************)
(* Frames that make several outbound calls.                                *)
(***************************************************************************)
\* Most CALL_FUNCTION instructions in a stream.
MaxCalls == 2

CallOps ==
  { VarRegOp(Opcode("op_CALL_FUNCTION"), 1, << a, f, 2 >>) : a, f \in {0, 1} }
  \cup { VarRegOp(Opcode("op_CALL_FUNCTION_VAR_KW"), 0, << f, 2 >>) : f \in {0, 1} }
  \cup { \* the result replaces the argument
         VarRegOp(Opcode("op_CALL_FUNCTION"), 1, << 1, 0, 1 >>),
         \* one keyword after no, one and two positionals
         VarRegOp(Opcode("op_CALL_FUNCTION_KW"), 256, << 0, 1, 0, 2 >>),
         VarRegOp(Opcode("op_CALL_FUNCTION_KW"), 256 + 1, << 1, 0, 1, 0, 2 >>),
         VarRegOp(Opcode("op_CALL_FUNCTION_KW"), 256 + 2,
                  << 0, 1, 0, 1, 0, 2 >>) }

CallPrograms ==
  UNION { { b \o << RegOp(Opcode("op_RETURN_VALUE"), 0, 2, kBadRegister,
                          kBadRegister, kBadRegister) >> :
              b \in [1..n -> CallOps] } : n \in 1..MaxCalls }

InitCall ==
  /\ IdleFiles
  /\ IdleScopes
  /\ IdleSubscr
  /\ IdleInt
  /\ code \in CallPrograms
  /\ fn \in Functions
  /\ args = [isTuple |-> TRUE, items |-> << 2 >>]
  /\ compiles = TRUE
  /\ EntryState(TRUE)

NextCall ==
  \/ EvalPython
  \/ CallFunction
  \/ ReturnValue
  \/ DeleteFrame

SpecCall == InitCall /\ [][NextCall]_vars

(***************************************************************************)
(* Name loads under every combination of bindings of the name in the three *)
(* scopes.                                                                 *)
(***************************************************************************)
Bindings == [1..Len(names) -> Obj \cup {NULL}]

NamePrograms ==
  { << RegOp(Opcode(l), 0, 1, kBadRegister, kBadRegister, kBadRegister),
       RegOp(Opcode("op_RETURN_VALUE"), 0, 1, kBadRegister, kBadRegister,
             kBadRegister) >> : l \in {"op_LOAD_GLOBAL", "op_LOAD_NAME"} }

InitNames ==
  /\ IdleFiles
  /\ locals_ \in Bindings
  /\ globals_ \in Bindings
  /\ builtins_ \in Bindings
  /\ IdleSubscr
  /\ IdleInt
  /\ code \in NamePrograms
  /\ fn \in Functions
  /\ args = [isTuple |-> TRUE, items |-> << 2 >>]
  /\ compiles = TRUE
  /\ EntryState(TRUE)

NextNames ==
  \/ EvalPython
  \/ LoadGlobal
  \/ LoadName
  \/ ReturnValue
  \/ DeleteFrame

SpecNames == InitNames /\ [][NextNames]_vars

(***************************************************************************)
(* Subscription of a list of up to MaxListLen items by every integer from  *)
(* beyond its negative range to beyond its positive range, and of operands *)
(* that are not an exact list and integer.                                 *)
(***************************************************************************)
MaxListLen == 2

SubscrPrograms ==
  { << RegOp(Opcode("op_BINARY_SUBSCR"), 0, 0, 1, d, kBadRegister),
       RegOp(Opcode("op_RETURN_VALUE"), 0, d, kBadRegister, kBadRegister,
             kBadRegister) >> : d \in {1, 2} }

InitSubscr ==
  /\ IdleFiles
  /\ IdleScopes
  /\ IdleInt
  /\ exact \in BOOLEAN
  /\ listItems \in UNION { TuplesOf(Obj, k) : k \in 0..MaxListLen }
  /\ keyVal \in (0 - MaxListLen - 1)..(MaxListLen + 1)
  /\ code \in SubscrPrograms
  /\ fn \in Functions
  /\ args = [isTuple |-> TRUE, items |-> << 2 >>]
  /\ compiles = TRUE
  /\ EntryState(TRUE)

NextSubscr ==
  \/ EvalPython
  \/ BinarySubscr
  \/ ReturnValue
  \/ DeleteFrame

SpecSubscr == InitSubscr /\ [][NextSubscr]_vars

(***************************************************************************)
(* Frames that print: up to MaxPrints print instructions, to sys.stdout    *)
(* and to the file object passed as the argument, then a return.           *)
(***************************************************************************)
\* Most print instructions in a stream.
MaxPrints == 3

PrintOps ==
  { RegOp(Opcode("op_PRINT_ITEM"), 0, r, kBadRegister, kBadRegister,
          kBadRegister) : r \in {0, 1} }
  \cup { RegOp(Opcode("op_PRINT_ITEM_TO"), 0, 0, 1, kBadRegister, kBadRegister),
         RegOp(Opcode("op_PRINT_NEWLINE"), 0, kBadRegister, kBadRegister,
               kBadRegister, kBadRegister),
         RegOp(Opcode("op_PRINT_NEWLINE_TO"), 0, kBadRegister, 1, kBadRegister,
               kBadRegister),
         RegOp(Opcode("op_PRINT_NEWLINE_TO"), 0, kBadRegister, 2, kBadRegister,
               kBadRegister) }

PrintPrograms ==
  UNION { { b \o << RegOp(Opcode("op_RETURN_VALUE"), 0, 0, kBadRegister,
                          kBadRegister, kBadRegister) >> :
              b \in [1..n -> PrintOps] } : n \in 0..MaxPrints }

\* The constant is a string or not; the strings tried end in a plain
\* character, in ' ', or in another whitespace character.
PrintedStrings ==
  { NotAString }
  \cup { [isString |-> TRUE, chars |-> c] :
           c \in { << >>, << 120 >>, << 32 >>, << 10 >>, << 120, 9 >> } }

InitPrint ==
  /\ Untyped
  /\ files = [f \in FileIds |-> NewFile]
  /\ strings \in { [o \in Obj |-> IF o = consts[1] THEN k ELSE NotAString] :
                     k \in PrintedStrings }
  /\ IdleScopes
  /\ IdleSubscr
  /\ IdleInt
  /\ code \in PrintPrograms
  /\ fn \in Functions
  /\ args = [isTuple |-> TRUE, items |-> << 2 >>]
  /\ compiles = TRUE
  /\ EntryState(TRUE)

NextPrint ==
  \/ EvalPython
  \/ PrintItem
  \/ PrintNewline
  \/ ReturnValue
  \/ DeleteFrame

SpecPrint == InitPrint /\ [][NextPrint]_vars

(***************************************************************************)
(* Frames that copy registers and build containers: up to MaxCopies such   *)
(* instructions, then a return.  The argument is the constant, so that an  *)
(* object made by the frame can be the only holder's.                      *)
(***************************************************************************)
\* Most instructions before the return.
MaxCopies == 3

CopyOps ==
  { RegOp(Opcode("op_UNARY_NEGATIVE"), 0, 0, 1, kBadRegister, kBadRegister),
    VarRegOp(Opcode("op_BUILD_TUPLE"), 1, << 1, 2 >>),
    VarRegOp(Opcode("op_BUILD_LIST"), 1, << 1, 2 >>) }
  \cup { RegOp(Opcode(l), 0, a, 1, kBadRegister, kBadRegister) :
           l \in {"op_LOAD_FAST", "op_STORE_FAST"}, a \in {0, 1} }

CopyPrograms ==
  UNION { { b \o << RegOp(Opcode("op_RETURN_VALUE"), 0, r, kBadRegister,
                          kBadRegister, kBadRegister) >> :
              b \in [1..n -> CopyOps], r \in {1, 2} } : n \in 1..MaxCopies }

InitCopy ==
  /\ IdleFiles
  /\ IdleScopes
  /\ IdleSubscr
  /\ IdleInt
  /\ code \in CopyPrograms
  /\ fn \in Functions
  /\ args = [isTuple |-> TRUE, items |-> << 1 >>]
  /\ compiles = TRUE
  /\ EntryState(TRUE)

NextCopy ==
  \/ EvalPython
  \/ UnaryOp
  \/ BuildTuple
  \/ LoadFast
  \/ StoreFast
  \/ ReturnValue
  \/ DeleteFrame

SpecCopy == InitCopy /\ [][NextCopy]_vars

(***************************************************************************)
(* Comparisons: one COMPARE_OP of every sub-op on operands that are exact  *)
(* integers, exact floats or objects of another type.                      *)
(***************************************************************************)
CompareOps ==
  { RegOp(Opcode("op_COMPARE_OP"), a, r1, r2, 2, kBadRegister) :
      a \in 0..PyCmp_IS_NOT, r1 \in {0, 1}, r2 \in {0, 1} }

ComparePrograms ==
  { << c, RegOp(Opcode("op_RETURN_VALUE"), 0, 2, kBadRegister,
                kBadRegister, kBadRegister) >> : c \in CompareOps }

InitCompare ==
  /\ files = [f \in FileIds |-> NewFile]
  /\ strings = [o \in Obj |-> NotAString]
  /\ ob_type \in [Obj -> {"int", "float", "object"}]
  /\ ob_type[Py_False] = "object"
  /\ ob_type[Py_True] = "object"
  /\ IdleScopes
  /\ IdleSubscr
  /\ IdleInt
  /\ code \in ComparePrograms
  /\ fn \in Functions
  /\ args \in { [isTuple |-> TRUE, items |-> << o >>] : o \in Obj }
  /\ compiles = TRUE
  /\ EntryState(TRUE)

NextCompare ==
  \/ EvalPython
  \/ CompareOp
  \/ ReturnValue
  \/ DeleteFrame

SpecCompare == InitCompare /\ [][NextCompare]_vars

(***************************************************************************)
(* Loads that read an operand after releasing their destination: a value   *)
(* made by UNARY_NEGATIVE, then LOAD_ATTR or CONST_INDEX from a register   *)
(* into the same or another register.                                      *)
(***************************************************************************)
AttrOps ==
  { RegOp(Opcode("op_UNARY_NEGATIVE"), 0, 0, 1, kBadRegister, kBadRegister) }
  \cup { RegOp(Opcode(l), 0, r1, r2, kBadRegister, kBadRegister) :
           l \in {"op_LOAD_ATTR", "op_CONST_INDEX"},
           r1 \in {0, 1}, r2 \in {1, 2} }

AttrPrograms ==
  { << a, b, RegOp(Opcode("op_RETURN_VALUE"), 0, r, kBadRegister,
                   kBadRegister, kBadRegister) >> :
      a \in AttrOps, b \in AttrOps, r \in {1, 2} }

InitAttr ==
  /\ IdleFiles
  /\ IdleScopes
  /\ IdleSubscr
  /\ IdleInt
  /\ code \in AttrPrograms
  /\ fn \in Functions
  /\ args = [isTuple |-> TRUE, items |-> << 1 >>]
  /\ compiles = TRUE
  /\ EntryState(TRUE)

NextAttr ==
  \/ EvalPython
  \/ UnaryOp
  \/ LoadAttr
  \/ ConstIndex
  \/ ReturnValue
  \/ DeleteFrame

SpecAttr == InitAttr /\ [][NextAttr]_vars

(***************************************************************************)
(* Properties.                                                             *)
(***************************************************************************)
\* The frame was constructed and handed to eval.
FrameBuilt == args.isTuple /\ compiles /\ ~WrongArgCount(fn, args)

\* Control is at the handler the table holds for the byte under pc.
Legit == InTable(pc) /\ lbl = labels[next_code(pc) + 1]

\* The byte under p is a rejected opcode or no opcode at all.
Rejected(p) ==
  /\ ValidPc(p)
  /\ IF next_code(p) < Len(labels)
       THEN labels[next_code(p) + 1] \in BadOpLabels
       ELSE TRUE

\* C1: once more than OpCeiling ops have been dispatched the frame is no
\* longer dispatching: it has failed with SystemError.
C1_OpCeilingEndsFrame ==
  dispatched > OpCeiling =>
    (estate \in {"Failing", "Returned"} /\ err = "SystemError")

\* C2: a step in which a host call of a handler returns the error result
\* takes the frame from Dispatching to Failing and writes no register.
C2_NullResultFailsFrame ==
  [][(estate = "Dispatching" /\ Legit /\ err = "none" /\ err' = "HostError")
       => (estate' = "Failing" /\ registers' = registers)]_vars

\* C3: when eval has returned, its result is non-null exactly when no host
\* error is pending.
C3_TwoValuedOutcome ==
  estate \in {"Returning", "Failing"} => ((result # NULL) <=> (err = "none"))

\* C4: after eval_python destroyed the frame it built, every object has the
\* refcount it had before the call, plus one for the returned value.
C4_FrameReleasesRegisters ==
  (estate = "Returned" /\ FrameBuilt) =>
    \A o \in Obj :
      refcnt[o] = InitRefcnt(fn, args)[o] + (IF result = o THEN 1 ELSE 0)

\* C5: the value eval_python returns has gained exactly one reference over
\* the whole call.
C5_ReturnDeltaIsOne ==
  (estate = "Returned" /\ FrameBuilt /\ result # NULL) =>
    refcnt[result] = InitRefcnt(fn, args)[result] + 1

\* C6: called with args that is no tuple, or with too few arguments,
\* eval_python returns NULL with TypeError set; no exception leaves it.
C6_EntryErrorsAreReturned ==
  ((~args.isTuple \/ (compiles /\ WrongArgCount(fn, args))) /\ estate # "Entry")
    => (estate = "Returned" /\ exc = "none" /\ result = NULL
        /\ err = "TypeError")

\* C7: every dispatch indexes the table inside its bounds and lands on the
\* handler the table holds for the byte.
C7_DispatchInsideTable ==
  estate = "Dispatching" => Legit

\* C8: dispatching a rejected or unassigned opcode fails the frame with
\* SystemError, eval returns NULL, no register changes, the process lives.
C8_RejectedOpcodeFails ==
  [][(estate = "Dispatching" /\ Rejected(pc))
       => (estate' = "Failing" /\ err' = "SystemError" /\ result' = NULL
           /\ registers' = registers)]_vars

\* C9: whenever the fast path returns a value for a non-zero divisor and a
\* true result that fits the word, it is the value of the generic operator.
C9_FastPathEqualsGeneric ==
  (intRes.path = "fast" /\ ~DividesByZero(intOp, intB)
     /\ ObjF(intOp, intA, intB).val \in Long)
    => intRes.res = ObjF(intOp, intA, intB)

\* C10: for add the handler installs the exact sum, through the fast path
\* exactly when the sum fits the word and through the generic operator
\* exactly when it does not.
C10_AddOverflowFallsBack ==
  (intOp = "add" /\ intRes # NotRun) =>
    /\ intRes.res = PyInt_FromLong(intA + intB)
    /\ (intRes.path = "fast") <=> (intA + intB \in Long)
    /\ (intRes.path = "generic") <=> (intA + intB \notin Long)

\* C10 witness: an add whose true sum overflows the word went through the
\* generic operator.
C10_Witness ==
  /\ intOp = "add"
  /\ intA + intB \notin Long
  /\ intRes.path = "generic"

\* The first dispatch of a constructed frame: the registers are as the
\* constructor left them.
JustBuilt == estate = "Dispatching" /\ dispatched = 1 /\ FrameBuilt

\* C11: every parameter that no actual covers is bound to its own declared
\* default, the defaults being those of the last parameters: parameter i
\* gets defaults[i - (needed - d)].
C11_DefaultsBindOwnParameter ==
  JustBuilt =>
    \A i \in 0..(NeededArgs(fn) - 1) :
      i >= Len(args.items) =>
        registers[ArgOffset(fn) + i] =
          fn.defaults[i - (NeededArgs(fn) - Len(fn.defaults)) + 1]

\* C12: given an argument tuple and compiled code, construction throws
\* TypeError exactly when actuals plus defaults are fewer than the parameters
\* to fill (co_argcount, less one for a bound method); then nothing was
\* dispatched and the message carries the least accepted and the actual count.
C12_ArityErrorExactlyOnShortfall ==
  (args.isTuple /\ compiles /\ estate # "Entry") =>
    LET needed == fn.co_argcount - (IF fn.self # NULL THEN 1 ELSE 0)
        short == Len(args.items) + Len(fn.defaults) < needed
    IN /\ (exc = "TypeError") <=> short
       /\ short => /\ estate = "Escaped"
                    /\ dispatched = 0
                    /\ excInfo.got = Len(args.items)
                    /\ excInfo.expected + Len(fn.defaults) = needed

\* C12 witness: a call short of arguments although the function declares a
\* default was refused.
C12_Witness ==
  /\ estate = "Escaped"
  /\ args.isTuple
  /\ Len(fn.defaults) > 0
  /\ excInfo.got < excInfo.expected

\* C13: after construction the constants sit in registers [0, K), self of a
\* bound method in register K, then the actuals followed by defaults up to
\* register K + co_argcount - 1; every later register is null whatever the
\* length of args; each filled register retained its value once.
C13_ConstructedRegisterLayout ==
  JustBuilt =>
    /\ \A i \in 0..(Len(consts) - 1) : registers[i] = consts[i + 1]
    /\ fn.self # NULL => registers[Len(consts)] = fn.self
    /\ \A j \in 0..(NeededArgs(fn) - 1) :
         IF j < Len(args.items)
           THEN registers[ArgOffset(fn) + j] = args.items[j + 1]
           ELSE \E k \in 1..Len(fn.defaults) :
                  registers[ArgOffset(fn) + j] = fn.defaults[k]
    /\ \A i \in RegIdx : i >= Len(consts) + fn.co_argcount => registers[i] = NULL
    /\ \A o \in Obj :
         refcnt[o] = InitRefcnt(fn, args)[o]
                     + Cardinality({ i \in RegIdx : registers[i] = o })

\* C13 witness: a bound method called with more actuals than parameters has
\* its last register null.
C13_Witness ==
  /\ JustBuilt
  /\ fn.self # NULL
  /\ Len(args.items) > fn.co_argcount
  /\ fn.co_argcount < num_registers - Len(consts)
  /\ registers[num_registers - 1] = NULL

\* C15: entered from a thread that does not hold the host lock, the thread
\* holds the lock whenever a handler runs and while the frame is destroyed.
C15_LockHeldWhileRunning ==
  estate \in {"Dispatching", "Returning", "Failing"} => gil.held

\* C16: on every way out of the scope that took the host lock (a frame, no
\* frame, either TypeError) the lock was taken once, released once, and is
\* back to what it was at entry.
C16_LockReleasedOnEveryExit ==
  estate # "Entry" =>
    /\ gil.ensures = 1
    /\ gil.releases = 1
    /\ gil.held = gil.atEntry

\* C16 witness: a foreign thread's call that ended in the arity TypeError
\* has released the lock.
C16_Witness ==
  /\ estate = "Escaped"
  /\ args.isTuple
  /\ ~gil.atEntry
  /\ gil.releases = 1
  /\ ~gil.held

\* C14: every dispatch finds pc at an instruction start: a RegOp or
\* VarRegOp handler moved pc by the encoded length of its instruction, a
\* branch either by the BranchOp length or to its label.
C14_PcAtInstructionStart ==
  [][estate' = "Dispatching" =>
       /\ ValidPc(pc')
       /\ estate = "Dispatching" =>
            LET op == InstrAt(pc)
            IN IF op.kind = "BranchOp"
                 THEN pc' \in {pc + SizeOfBranchOp, op.label}
                 ELSE pc' = pc + SizeOf(op)]_vars

\* C14 witness: an untaken conditional branch was followed by a dispatch
\* of the instruction after it.
C14_Witness ==
  /\ estate = "Dispatching"
  /\ dispatched >= 2
  /\ \E i \in 1..(Len(code) - 1) :
       /\ code[i].kind = "BranchOp"
       /\ code[i].label # OffsetOf(code, i + 1)
       /\ pc = OffsetOf(code, i + 1)

\* C17: an argument tuple that a callee received and kept still has the
\* items the callee received, whatever calls the frame made since.
C17_KeptArgumentTupleUnchanged ==
  \A k \in kept : tupleItems[k.id] = k.seen

\* C18: the store STORE_ATTR asks of the host sets, on the object held in
\* reg_1, the attribute named names[arg] to the value held in reg_2.
C18_StoreAttrTargetsRegister ==
  [][(estate = "Dispatching" /\ Legit /\ lbl = "op_STORE_ATTR"
        /\ estate' = "Dispatching")
       => hostCall' = [fn |-> "PyObject_SetAttr",
                       o |-> registers[InstrAt(pc).reg_1],
                       key |-> names[InstrAt(pc).arg + 1],
                       v |-> registers[InstrAt(pc).reg_2]]]_vars

\* The name is bound in scope k of the list and in no scope before it.
FirstBinder(scopes, i, k) ==
  /\ scopes[k][i] # NULL
  /\ \A j \in 1..(k - 1) : scopes[j][i] = NULL

\* The scopes the handler at the current label searches, in order.
ScopesSearched ==
  IF lbl = "op_LOAD_GLOBAL" THEN << globals_, builtins_ >>
  ELSE << locals_, globals_, builtins_ >>

C22_CanonicalOperandJumpsWithoutTruthTest ==
  [][(\/ /\ Ready(JumpIfFalseLabels)
          /\ registers[InstrAt(pc).reg_1] = Py_False
       \/ /\ Ready(JumpIfTrueLabels)
          /\ registers[InstrAt(pc).reg_1] = Py_True)
       => /\ estate' = "Dispatching"
          /\ pc' = InstrAt(pc).label
          /\ hostCall' = NoHostCall
          /\ err' = err]_vars

\* C22 witness: a jump-if-true on the canonical True object was taken, away
\* from the instruction that follows it, and no host call was made for it.
C22_Witness ==
  /\ estate = "Dispatching"
  /\ dispatched >= 2
  /\ hostCall = NoHostCall
  /\ \E i \in 1..Len(code) :
       /\ code[i].code \in { Opcode(l) : l \in JumpIfTrueLabels }
       /\ registers[code[i].reg_1] = Py_True
       /\ pc = code[i].label
       /\ pc # OffsetOf(code, i) + SizeOfBranchOp

\* The object is a string whose last character is whitespace other than ' '.
EndsInOtherWhitespace(v) ==
  /\ strings[v].isString
  /\ Len(strings[v].chars) > 0
  /\ LET last == strings[v].chars[Len(strings[v].chars)]
     IN last \in 9..13

\* The writes a file received are those of print statements: a Space stands
\* only between two items, and two items stand side by side only when the
\* first ends in whitespace other than ' '.
SpaceSeparated(out) ==
  \A k \in 1..Len(out) :
    /\ out[k] = Space =>
         /\ k > 1
         /\ k < Len(out)
         /\ out[k - 1] > 0
         /\ out[k + 1] > 0
    /\ (out[k] > 0 /\ k < Len(out)) =>
         IF EndsInOtherWhitespace(out[k])
           THEN out[k + 1] # Space
           ELSE out[k + 1] \in {Space, Newline}

\* A print handler ran on a file object and its writes succeeded.
PrintedTo(labelSet) ==
  /\ Ready(labelSet)
  /\ estate' = "Dispatching"
  /\ hostCall'.fn \in {"PyFile_WriteObject", "PyFile_WriteString"}
  /\ hostCall'.v = 0

\* A successful PRINT_ITEM(_TO) step writes the separating space, if the
\* flag asks for one, and the item, and sets the flag by the item.
ItemPrintedByRule ==
  PrintedTo({"op_PRINT_ITEM", "op_PRINT_ITEM_TO"}) =>
    LET v == registers[InstrAt(pc).reg_1]
        w == PrintFile(InstrAt(pc))
    IN /\ files'[w].out =
            files[w].out
            \o (IF files[w].softspace THEN << Space >> ELSE << >>)
            \o << v >>
       /\ files'[w].softspace = ~EndsInOtherWhitespace(v)
       /\ \A f \in FileIds \ {w} : files'[f] = files[f]

\* A successful PRINT_NEWLINE(_TO) step writes the newline and clears the flag.
NewlinePrintedByRule ==
  PrintedTo({"op_PRINT_NEWLINE", "op_PRINT_NEWLINE_TO"}) =>
    LET w == PrintFile(InstrAt(pc))
    IN /\ files'[w].out = files[w].out \o << Newline >>
       /\ files'[w].softspace = FALSE
       /\ \A f \in FileIds \ {w} : files'[f] = files[f]

\* C23: PRINT_ITEM(_TO) writes a single space before the item exactly when
\* the soft-space flag of the file is set, then the item, and leaves the flag
\* set unless the item is a string ending in whitespace other than ' ';
\* PRINT_NEWLINE(_TO) writes one newline and clears the flag; no other file
\* is touched.  So the items of a line come out separated by single spaces,
\* with no space leading or trailing.
C23_PrintFollowsSoftSpaceRules ==
  [][/\ ItemPrintedByRule
     /\ NewlinePrintedByRule
     /\ err' = "none" => \A f \in FileIds : SpaceSeparated(files'[f].out)]_vars

\* C23 witness: two items and a newline were printed to one file: the items
\* are separated by one space and the flag is clear after the newline.
C23_Witness ==
  \E f \in FileIds :
    /\ Len(files[f].out) = 4
    /\ files[f].out[1] > 0
    /\ files[f].out[2] = Space
    /\ files[f].out[3] > 0
    /\ files[f].out[4] = Newline
    /\ ~files[f].softspace

\* The register the handler at label l overwrites with its result.
DestReg(l, op) ==
  CASE l \in BinaryOpWithSpecializationLabels \cup BinaryOpLabels
         \cup BinaryPowerLabels \cup {"op_COMPARE_OP"} -> op.reg_3
    [] l \in UnaryOpLabels \cup {"op_LOAD_ATTR", "op_GET_ITER"} -> op.reg_2
    [] l = "op_SLICE" -> op.reg_4
    [] OTHER -> kBadRegister

\* C24: when a register-writing handler has returned, the prior occupant of
\* the register it overwrote has been released once and the new occupant is
\* owned by the register: the counts changed by exactly that release and
\* that one new reference.
C24_OverwriteReleasesPriorOccupant ==
  [][(/\ estate = "Dispatching"
      /\ Legit
      /\ DestReg(lbl, InstrAt(pc)) # kBadRegister
      /\ estate' = "Dispatching")
       => LET d == DestReg(lbl, InstrAt(pc))
              new == registers'[d]
          IN refcnt' = Py_XDECREF(IF new = NULL THEN refcnt
                                                ELSE Py_INCREF(refcnt, new),
                                  registers[d])]_vars

\* A CALL_FUNCTION handler ran to its end: it stored a result or threw.
CallStep ==
  /\ estate = "Dispatching"
  /\ Legit
  /\ lbl \in CallLabels
  /\ estate' \in {"Dispatching", "Failing"}

\* C25: each executed CALL_FUNCTION runs its callee once; when that one
\* invocation yields NULL the handler fails and the callee is not run again.
C25_CalleeInvokedOnce ==
  [][CallStep => Len(invoked') = 1]_vars

\* C26: the keyword dict handed to the callee of a CALL_FUNCTION with
\* nk >= 1 holds the nk pairs found in registers regs[na + 2j],
\* regs[na + 2j + 1] for 0 <= j < nk, whatever na is.
C26_KeywordDictHoldsEveryPair ==
  [][(CallStep /\ NumCallKw(InstrAt(pc)) >= 1) =>
       LET op == InstrAt(pc)
           na == NumCallArgs(op)
       IN /\ handed'.made
          /\ handed'.pairs =
               { << registers[op.regs[na + 2 * j + 1]],
                    registers[op.regs[na + 2 * j + 2]] >> :
                   j \in 0..(NumCallKw(op) - 1) }]_vars

\* C27: releasing the cached argument tuple takes from no value a reference
\* the frame did not add: every object keeps at least the references its
\* holders outside the frame have.
C27_TupleReleaseTakesNoForeignReference ==
  \A o \in Obj : refcnt[o] >= InitRefcnt(fn, args)[o]

\* C28: LOAD_FAST and STORE_FAST whose reg_1 and reg_2 are one register,
\* holding a value of refcount 1, leave the value alive with refcount 1: it
\* is not deallocated on the way.
C28_SelfCopyKeepsValueAlive ==
  [][(/\ Ready({"op_LOAD_FAST", "op_STORE_FAST"})
      /\ InstrAt(pc).reg_1 = InstrAt(pc).reg_2
      /\ registers[InstrAt(pc).reg_1] # NULL
      /\ refcnt[registers[InstrAt(pc).reg_1]] = 1)
       => LET v == registers[InstrAt(pc).reg_1]
          IN /\ estate' = "Dispatching"
             /\ refcnt'[v] = 1
             /\ v \notin freed']_vars

\* C29: every element of a container built by BUILD_TUPLE / BUILD_LIST stays
\* live for as long as the container is, whatever was stored since into the
\* registers the elements came from: besides the references held outside
\* the frame, the element has the one the container holds.
C29_ContainerElementsStayLive ==
  \A c \in containers :
    refcnt[c.id] > 0 =>
      \A i \in 1..Len(c.items) :
        c.items[i] # NULL =>
          refcnt[c.items[i]] > InitRefcnt(fn, args)[c.items[i]]

\* C30: BINARY_POWER and INPLACE_POWER change reg_3 only: reg_2 still holds
\* its operand, whose refcount is as before, and the value released is the
\* prior occupant of reg_3.
C30_PowerLeavesOperandUntouched ==
  [][(/\ estate = "Dispatching"
      /\ Legit
      /\ lbl \in BinaryPowerLabels
      /\ estate' = "Dispatching")
       => LET op == InstrAt(pc)
              r3 == registers'[op.reg_3]
          IN /\ \A i \in RegIdx \ {op.reg_3} : registers'[i] = registers[i]
             /\ refcnt' = Py_XDECREF(IF r3 = NULL THEN refcnt
                                                  ELSE Py_INCREF(refcnt, r3),
                                     registers[op.reg_3])]_vars

\* C31: for sub and mul on two exact integers whose true result does not
\* fit the word, the fast path returns NULL: the handler takes the generic
\* operator and never installs the wrapped result.
C31_SubMulOverflowFallsBack ==
  (intOp \in {"sub", "mul"} /\ intRes # NotRun
     /\ ObjF(intOp, intA, intB).val \notin Long)
    => intRes.path = "generic"

\* C32: div and mod on exact integers with a zero divisor, or dividing the
\* minimum integer by -1, make no native division: the fast path returns
\* NULL and the generic operator gives the host result.
C32_DivModAvoidsNativeTrap ==
  (intOp \in {"div", "mod"} /\ intRes # NotRun
     /\ (intB = 0 \/ (intA = LONG_MIN /\ intB = 0 - 1)))
    => (intRes.path = "generic" /\ intRes.res = ObjF(intOp, intA, intB))

\* C33: COMPARE_OP with sub-op IS or IS_NOT decides identity for operands of
\* every type: reg_3 receives Py_True for IS exactly when reg_1 and reg_2
\* hold the same object (Py_False for IS_NOT), and the sub-op is not passed
\* to PyObject_RichCompare.
C33_IdentityDecidedForEveryType ==
  [][(Ready({"op_COMPARE_OP"})
        /\ InstrAt(pc).arg \in {PyCmp_IS, PyCmp_IS_NOT}
        /\ estate' = "Dispatching") =>
       LET op == InstrAt(pc)
           same == registers[op.reg_1] = registers[op.reg_2]
       IN /\ hostCall'.fn # "PyObject_RichCompare"
          /\ registers'[op.reg_3] = PyBool(same = (op.arg = PyCmp_IS))]_vars

\* C34: a FOR_ITER whose PyIter_Next returns NULL with a host error pending
\* (an error, not exhaustion) moves the frame to Failing: the handler does
\* not jump to the label and keep executing.
C34_IteratorErrorFailsFrame ==
  [][(Ready({"op_FOR_ITER"})
        /\ hostCall'.fn = "PyIter_Next"
        /\ hostCall'.v = NULL
        /\ err = "none"
        /\ err' = "HostError")
       => estate' = "Failing"]_vars

\* C35: the two conditional jump families are complementary.  On an operand
\* the truth test is asked about, the jump-if-false family jumps exactly
\* when the answer is false and the jump-if-true family exactly when it is
\* true, the other one advancing to the next instruction; when the truth
\* test fails, the handler of either family fails the frame instead of
\* advancing.
C35_JumpFamiliesComplementary ==
  [][(Ready(JumpIfFalseLabels \cup JumpIfTrueLabels)
        /\ hostCall'.fn = "PyObject_IsTrue"
        /\ estate' # "Crashed"
        /\ pc' # pc) =>
       LET op == InstrAt(pc)
           t == hostCall'.v
           want == IF lbl \in JumpIfFalseLabels THEN 0 ELSE 1
       IN IF t < 0
            THEN estate' = "Failing"
            ELSE /\ estate' = "Dispatching"
                 /\ pc' = IF t = want THEN op.label
                                      ELSE pc + SizeOfBranchOp]_vars

\* C36: LOAD_ATTR and CONST_INDEX whose reg_1 and reg_2 are one register,
\* holding an object of refcount 1, call get_attr / get_item on a live
\* object: the operand is not deallocated before the call reads it.
C36_OperandLiveWhenRead ==
  [][(/\ Ready({"op_LOAD_ATTR", "op_CONST_INDEX"})
      /\ InstrAt(pc).reg_1 = InstrAt(pc).reg_2
      /\ registers[InstrAt(pc).reg_1] # NULL
      /\ refcnt[registers[InstrAt(pc).reg_1]] = 1)
       => /\ estate' # "Crashed"
          /\ registers[InstrAt(pc).reg_1] \notin freed']_vars

====
